---- MODULE Spec2Model ----
(***************************************************************************)
(* SkiStat backend: the session lifecycle (register, login, Sign in with  *)
(* Apple, refresh, logout, account deletion, the authenticate middleware)  *)
(* and the run upload paths, over the relational tables users,             *)
(* refresh_tokens and runs.                                                *)
(*                                                                         *)
(* A table is a sequence of rows in created_at order.  A JWT is the record *)
(* of what jsonwebtoken signs: the secret it was signed with (kind), the   *)
(* userId claim and iat in whole seconds; exp is iat plus the lifetime.    *)
(* HS256 signing is deterministic, so two tokens signed for the same user  *)
(* with the same secret in the same second are the same string.  The email *)
(* claim is fixed per user id (no handler changes users.email), so it does *)
(* not distinguish tokens and is left out of the record.                   *)
(***************************************************************************)
EXTENDS Integers, Sequences, FiniteSets, TLC

\* ------------------------------------------------------------- bounds
MaxUsers == 2      \* user rows ever created
MaxSecs == 1       \* the clock visits seconds 0..MaxSecs one by one
MaxIssue == 3      \* sessions issued in one behaviour
MaxPruneIssue == 6 \* sessions issued in one behaviour of SpecPrune
MaxProcs == 2      \* requests in flight at once
MaxBulk == 2       \* items in one bulk upload
MaxRuns == 3       \* rows ever inserted into runs
MaxSocialRuns == 2 \* rows ever inserted into runs where friends and leaderboards are read
MaxCrowd == 3      \* accounts that befriend each other
MaxCodes == 2      \* codes generateInviteCode can draw where the draws are free
MaxMs == 1         \* milliseconds of one second at which Date.now() is read
MaxYears == 2      \* years the calendar runs through

\* ------------------------------------------------- program constants
AccessTTL == 604800       \* JWT_EXPIRES_IN default '7d', in seconds
RefreshTTL == 2592000     \* JWT_REFRESH_EXPIRES_IN default '30d'; expires_at = now + 30 days
KeepTokens == 5           \* ORDER BY created_at DESC OFFSET 5
ListLimitDefault == 50    \* parseInt(req.query.limit) || 50
ListLimitMax == 100       \* isInt({ min: 1, max: 100 })
FriendRunsLimit == 20     \* parseInt(req.query.limit) || 20
SpeedBoardLimit == 20     \* LIMIT 20
MAX_FRIENDS == 50
BulkMax == 50             \* isArray({ min: 1, max: 50 })
MaxAttempts == 10         \* while (attempts < 10)

NULL == "NULL"
NoCode == [word |-> NULL, num |-> 0]

VARIABLES
  users,           \* table users: id -> row, for the ids that have a row
  nextUserId,      \* uuid_generate_v4() never repeats: ids are handed out in order
  refresh_tokens,  \* table refresh_tokens, rows in created_at order
  now,             \* the wall clock, in seconds
  issued,          \* number of sessions issued so far
  removed,         \* history: refresh tokens a row of which was deleted, by cause
  last,            \* the response to the latest request
  runs,            \* table runs, rows in created_at order
  nextRunId,       \* uuid_generate_v4() of runs.id
  procs,           \* the requests in flight: each one's place between two awaits
  friendships      \* table friendships, rows in created_at order

vars == <<users, nextUserId, refresh_tokens, now, issued, removed, last,
          runs, nextRunId, procs, friendships>>
sessionVars == <<users, nextUserId, refresh_tokens, now, issued, removed>>
runVars == <<runs, nextRunId>>

\* ------------------------------------------------------------- inputs
ProcIds == 1..MaxProcs
RegisterPasswords == {"password1"}
UserIds == 1..MaxUsers
EmailInputs == {"a@x.io", "A@x.io", "b@x.io"}
Passwords == {"password1", "password2"}
AppleIdTokens == {"forged", "apple-s1"}
Instants == (0..MaxSecs) \cup {RefreshTTL}   \* the seconds the clock visits; at the last every token has expired

\* mutant: the e-mail compared and stored as it was sent
toLowerCase_AsSent(email) == email

\* String.prototype.toLowerCase on the e-mail inputs
toLowerCase(email) == IF email = "A@x.io" THEN "a@x.io" ELSE email

\* bcrypt.hash / bcrypt.compare: a hash matches exactly the password it was made from
NoHash == [alg |-> "none", of |-> ""]
bcrypt_hash(password) == [alg |-> "bcrypt", of |-> password]
bcrypt_compare(password, hash) == hash = bcrypt_hash(password)

\* appleSignin.verifyIdToken: the verified claims, or a failure
VerifyFails == [ok |-> FALSE, sub |-> NULL, email |-> NULL]
verifyIdToken(identityToken) ==
  IF identityToken = "apple-s1"
    THEN [ok |-> TRUE, sub |-> "s1", email |-> "b@x.io"]
    ELSE VerifyFails

\* ---------------------------------------------------------------- JWT
NoToken == [kind |-> "none", userId |-> 0, iat |-> 0]
Garbage == [kind |-> "garbage", userId |-> 0, iat |-> 0]
TTL(kind) == IF kind = "access" THEN AccessTTL ELSE RefreshTTL

\* jwt.sign(payload, secret, {expiresIn})
jwt_sign(kind, userId, t) == [kind |-> kind, userId |-> userId, iat |-> t]

\* jwt.verify(token, secret): the signature is that secret's and exp is ahead
jwt_verify(token, kind, t) == token.kind = kind /\ t < token.iat + TTL(kind)


\* ----------------------------------------------------- refresh_tokens
RECURSIVE DeleteRows(_, _, _)
DeleteRows(table, doomed, i) ==
  IF i > Len(table) THEN <<>>
  ELSE (IF i \in doomed THEN <<>> ELSE <<table[i]>>) \o DeleteRows(table, doomed, i + 1)

RowsWhere(table, P(_)) == {i \in 1..Len(table) : P(table[i])}

\* INSERT INTO refresh_tokens (user_id, token, expires_at)
InsertRefreshToken(table, userId, token, t) ==
  Append(table, [user_id |-> userId, token |-> token, expires_at |-> t + RefreshTTL])

\* mutant: the clean-up ordered by created_at ASC, keeping the oldest rows
PrunedRows_KeepOldest(table, userId) ==
  {i \in 1..Len(table) :
     /\ table[i].user_id = userId
     /\ Cardinality({j \in 1..(i - 1) : table[j].user_id = userId}) >= KeepTokens}

\* DELETE ... WHERE id IN (SELECT id ... WHERE user_id = $1 ORDER BY created_at DESC OFFSET 5)
PrunedRows(table, userId) ==
  {i \in 1..Len(table) :
     /\ table[i].user_id = userId
     /\ Cardinality({j \in (i + 1)..Len(table) : table[j].user_id = userId}) >= KeepTokens}

PruneRefreshTokens(table, userId) == DeleteRows(table, PrunedRows(table, userId), 1)

\* mutant: the SELECT without its token condition
SelectRefreshToken_AnyToken(table, token, userId, t) ==
  RowsWhere(table, LAMBDA r : r.user_id = userId /\ r.expires_at > t)

\* SELECT * FROM refresh_tokens WHERE token = $1 AND user_id = $2 AND expires_at > NOW()
SelectRefreshToken(table, token, userId, t) ==
  RowsWhere(table, LAMBDA r : r.token = token /\ r.user_id = userId /\ r.expires_at > t)

\* DELETE FROM refresh_tokens WHERE token = $1
DeleteByToken(table, token) ==
  DeleteRows(table, RowsWhere(table, LAMBDA r : r.token = token), 1)

\* DELETE FROM refresh_tokens WHERE token = $1 AND user_id = $2
DeleteByTokenAndUser(table, token, userId) ==
  DeleteRows(table, RowsWhere(table, LAMBDA r : r.token = token /\ r.user_id = userId), 1)

\* mutant: users deleted without the cascade to refresh_tokens
DeleteByUser_Nothing(table, userId) == table

\* DELETE FROM refresh_tokens WHERE user_id = $1 (also the ON DELETE CASCADE of users)
DeleteByUser(table, userId) ==
  DeleteRows(table, RowsWhere(table, LAMBDA r : r.user_id = userId), 1)

TokensOfRows(table, rows) == {table[i].token : i \in rows}
TokensIn(table) == TokensOfRows(table, 1..Len(table))
RowsOf(table, userId) == SelectSeq(table, LAMBDA r : r.user_id = userId)

\* ------------------------------------------------------------ history
\* consumed: exchanged by a successful refresh; deleted: a row of the token was
\* deleted by any path (refresh, logout, the clean-up, the cascade)
NothingRemoved == [consumed |-> {}, deleted |-> {}]
Removed(tokens) == [removed EXCEPT !.deleted = @ \cup tokens]

\* --------------------------------------------------------------- runs
\* JSON values: undefined (the field is absent), SQL NULL, or an array of points
Undefined == -1
JSONUndefined == [type |-> "undefined", items |-> <<>>]
JSONNull == [type |-> "null", items |-> <<>>]
Array(items) == [type |-> "array", items |-> items]
\* JavaScript truthiness of a JSON value: an array is truthy, the empty one too
Truthy(v) == v.type = "array"
\* JSON.stringify, and the JSONB column parsing the text it is given
JSON_stringify(v) == <<"json", v>>
jsonb(text) == text[2]
\* x || 0 on a number that may be absent
OrZero(x) == IF x = Undefined \/ x = 0 THEN 0 ELSE x
\* x || 'Blue'
OrBlue(x) == IF x = NULL \/ x = "" THEN "Blue" ELSE x

ClientIds == {"c1", "c2"}
NoRun == [clientId |-> NULL, runName |-> NULL, resortName |-> NULL, startTime |-> Undefined,
          distance |-> Undefined, maxSpeed |-> Undefined, elevationDrop |-> Undefined,
          points |-> Undefined, calories |-> Undefined, difficulty |-> NULL,
          routeData |-> JSONUndefined]
\* request bodies that pass the validators of POST /v1/runs
RunBodies ==
  { [NoRun EXCEPT !.startTime = 1, !.distance = 5, !.maxSpeed = 30, !.elevationDrop = 100,
                  !.points = 10],
    [NoRun EXCEPT !.startTime = 1, !.distance = 6, !.maxSpeed = 40, !.elevationDrop = 200,
                  !.points = 20, !.runName = "Bowl", !.resortName = "Alta", !.calories = 300,
                  !.difficulty = "Black", !.routeData = Array(<<1, 2>>)],
    [NoRun EXCEPT !.startTime = 2, !.distance = 6, !.maxSpeed = 40, !.elevationDrop = 200,
                  !.points = 20, !.runName = "Bowl", !.resortName = "Alta", !.calories = 0,
                  !.routeData = Array(<<>>)] }
RunInputs == {[body EXCEPT !.clientId = c] : body \in RunBodies, c \in ClientIds}

\* SELECT id FROM runs WHERE user_id = $1 AND client_id = $2
SelectRun(table, userId, clientId) ==
  RowsWhere(table, LAMBDA r : r.user_id = userId /\ r.client_id = clientId)

\* the column values of the INSERT and of the UPDATE of POST /v1/runs
RunColumns(run) ==
  [run_name |-> run.runName, resort_name |-> run.resortName, start_time |-> run.startTime,
   distance |-> run.distance, max_speed |-> run.maxSpeed,
   elevation_drop |-> run.elevationDrop, points |-> run.points,
   calories |-> OrZero(run.calories), difficulty |-> OrBlue(run.difficulty),
   route_data |-> IF Truthy(run.routeData)
                    THEN jsonb(JSON_stringify(run.routeData)) ELSE JSONNull]

\* INSERT INTO runs (...) VALUES (...) RETURNING id
InsertRun(table, id, userId, run) ==
  Append(table, [id |-> id, user_id |-> userId, client_id |-> run.clientId,
                 is_deleted |-> FALSE] @@ RunColumns(run))

\* mutant: the UPDATE of the batch variant, which sets run_name only
UpdateRun_NameOnly(table, userId, run) ==
  [i \in DOMAIN table |->
     IF table[i].user_id = userId /\ table[i].client_id = run.clientId
       THEN [table[i] EXCEPT !.run_name = run.runName]
       ELSE table[i]]

\* UPDATE runs SET ... WHERE user_id = $1 AND client_id = $2 RETURNING id
UpdateRun(table, userId, run) ==
  [i \in DOMAIN table |->
     IF table[i].user_id = userId /\ table[i].client_id = run.clientId
       THEN RunColumns(run) @@ table[i]
       ELSE table[i]]

\* the column values of the INSERT of POST /v1/runs/bulk: no route_data
BulkColumns(run) ==
  [run_name |-> run.runName, resort_name |-> run.resortName, start_time |-> run.startTime,
   distance |-> OrZero(run.distance), max_speed |-> OrZero(run.maxSpeed),
   elevation_drop |-> OrZero(run.elevationDrop), points |-> OrZero(run.points),
   calories |-> OrZero(run.calories), difficulty |-> OrBlue(run.difficulty),
   route_data |-> JSONNull]

\* client_id and start_time are NOT NULL: the INSERT of such an item throws
BulkInsertFails(run) == run.clientId = NULL \/ run.startTime = Undefined

BulkInsertRun(table, id, userId, run) ==
  Append(table, [id |-> id, user_id |-> userId, client_id |-> run.clientId,
                 is_deleted |-> FALSE] @@ BulkColumns(run))

\* mutant: the loop body that reports nothing for a run it finds stored
BulkItem_SkipsExisting(st, userId, run) ==
  IF SelectRun(st.table, userId, run.clientId) # {} THEN st
  ELSE IF BulkInsertFails(run)
    THEN [st EXCEPT !.results = Append(@,
            [clientId |-> run.clientId, status |-> "error", serverId |-> 0])]
  ELSE [table |-> BulkInsertRun(st.table, st.nextId, userId, run),
        nextId |-> st.nextId + 1,
        results |-> Append(st.results,
            [clientId |-> run.clientId, status |-> "created", serverId |-> st.nextId])]

\* mutant: the loop body that overwrites a stored run as POST /v1/runs does
BulkItem_Overwrites(st, userId, run) ==
  LET existing == SelectRun(st.table, userId, run.clientId)
  IN IF existing # {}
       THEN [st EXCEPT !.table = UpdateRun(st.table, userId, run),
                       !.results = Append(@,
               [clientId |-> run.clientId, status |-> "exists",
                serverId |-> st.table[CHOOSE i \in existing : \A j \in existing : i <= j].id])]
     ELSE IF BulkInsertFails(run)
       THEN [st EXCEPT !.results = Append(@,
               [clientId |-> run.clientId, status |-> "error", serverId |-> 0])]
     ELSE [table |-> BulkInsertRun(st.table, st.nextId, userId, run),
           nextId |-> st.nextId + 1,
           results |-> Append(st.results,
               [clientId |-> run.clientId, status |-> "created", serverId |-> st.nextId])]

\* one item of the loop of POST /v1/runs/bulk, on the state st = [table, nextId, results]
BulkItem(st, userId, run) ==
  LET existing == SelectRun(st.table, userId, run.clientId)
  IN IF existing # {}
       THEN [st EXCEPT !.results = Append(@,
               [clientId |-> run.clientId, status |-> "exists",
                serverId |-> st.table[CHOOSE i \in existing : \A j \in existing : i <= j].id])]
     ELSE IF BulkInsertFails(run)
       THEN [st EXCEPT !.results = Append(@,
               [clientId |-> run.clientId, status |-> "error", serverId |-> 0])]
     ELSE [table |-> BulkInsertRun(st.table, st.nextId, userId, run),
           nextId |-> st.nextId + 1,
           results |-> Append(st.results,
               [clientId |-> run.clientId, status |-> "created", serverId |-> st.nextId])]

\* mutant: the loop that gives up at the first item whose INSERT throws
RECURSIVE BulkLoop_StopsAtError(_, _, _, _)
BulkLoop_StopsAtError(st, userId, items, i) ==
  IF i > Len(items) THEN st
  ELSE IF SelectRun(st.table, userId, items[i].clientId) = {} /\ BulkInsertFails(items[i])
    THEN [st EXCEPT !.results = Append(@,
            [clientId |-> items[i].clientId, status |-> "error", serverId |-> 0])]
  ELSE BulkLoop_StopsAtError(BulkItem(st, userId, items[i]), userId, items, i + 1)

\* the loop over req.body.runs, from item i on
RECURSIVE BulkLoop(_, _, _, _)
BulkLoop(st, userId, items, i) ==
  IF i > Len(items) THEN st
  ELSE BulkLoop(BulkItem(st, userId, items[i]), userId, items, i + 1)

\* ------------------------------------------------------- reads of runs
\* formatRun(row): the list view, without the route payload
formatRun(row) ==
  [id |-> row.id, clientId |-> row.client_id, runName |-> row.run_name,
   resortName |-> row.resort_name, startTime |-> row.start_time, distance |-> row.distance,
   maxSpeed |-> row.max_speed, elevationDrop |-> row.elevation_drop, points |-> row.points,
   difficulty |-> row.difficulty, calories |-> row.calories, routeData |-> JSONUndefined]

\* formatRunFull(row)
formatRunFull(row) == [formatRun(row) EXCEPT !.routeData = row.route_data]

\* the rows of GET /v1/friends/:id/runs, which name fewer columns
formatFriendRun(row) ==
  [formatRun(row) EXCEPT !.clientId = NULL, !.calories = Undefined]

\* the sequences that hold each element of a set once
Orderings(S) ==
  {seq \in [1..Cardinality(S) -> S] : \A i, j \in 1..Cardinality(S) : seq[i] = seq[j] => i = j}

\* ORDER BY start_time DESC: rows of equal start_time come in any order
OrderByStartTime(rows) ==
  {seq \in Orderings(rows) :
     \A i, j \in 1..Len(seq) : i < j => seq[i].start_time >= seq[j].start_time}

\* mutant: the leaderboard query without its ORDER BY
OrderByValue_Unordered(entries) == Orderings(entries)

\* ORDER BY <value> DESC on leaderboard entries
OrderByValue(entries) ==
  {seq \in Orderings(entries) :
     \A i, j \in 1..Len(seq) : i < j => seq[i].value >= seq[j].value}

\* mutant: LIMIT without OFFSET
Page_NoOffset(seq, limit, offset) ==
  SubSeq(seq, 1, IF limit < Len(seq) THEN limit ELSE Len(seq))

\* LIMIT $limit OFFSET $offset
Page(seq, limit, offset) ==
  SubSeq(seq, offset + 1, IF offset + limit < Len(seq) THEN offset + limit ELSE Len(seq))

\* parseInt(req.query.x) || fallback
OrDefault(x, fallback) == IF x = Undefined \/ x = 0 THEN fallback ELSE x

\* mutant: the list query without its is_deleted condition
SelectMyRuns_WithDeleted(table, userId, resort, since) ==
  {table[i] : i \in RowsWhere(table, LAMBDA r :
     /\ r.user_id = userId
     /\ (resort \notin {NULL, ""} => r.resort_name = resort)
     /\ (since # Undefined => r.start_time >= since))}

\* WHERE user_id = $1 AND is_deleted = false [AND resort_name = $2] [AND start_time >= $3]
SelectMyRuns(table, userId, resort, since) ==
  {table[i] : i \in RowsWhere(table, LAMBDA r :
     /\ r.user_id = userId
     /\ ~r.is_deleted
     /\ (resort \notin {NULL, ""} => r.resort_name = resort)
     /\ (since # Undefined => r.start_time >= since))}

\* mutant: the detail query without its user_id condition
SelectRunById_AnyOwner(table, id, userId) ==
  RowsWhere(table, LAMBDA r : r.id = id /\ ~r.is_deleted)

\* SELECT * FROM runs WHERE id = $1 AND user_id = $2 AND is_deleted = false
SelectRunById(table, id, userId) ==
  RowsWhere(table, LAMBDA r : r.id = id /\ r.user_id = userId /\ ~r.is_deleted)

\* mutant: the soft delete as a DELETE of the row
SetDeleted_HardDelete(table, id, userId) ==
  SelectSeq(table, LAMBDA r : ~(r.id = id /\ r.user_id = userId))

\* UPDATE runs SET is_deleted = true WHERE id = $1 AND user_id = $2 RETURNING id
SoftDeleted(table, id, userId) ==
  RowsWhere(table, LAMBDA r : r.id = id /\ r.user_id = userId)
SetDeleted(table, id, userId) ==
  [i \in DOMAIN table |->
     IF i \in SoftDeleted(table, id, userId) THEN [table[i] EXCEPT !.is_deleted = TRUE]
     ELSE table[i]]

\* SUM over a sequence of numbers
RECURSIVE Sum(_)
Sum(seq) == IF seq = <<>> THEN 0 ELSE Head(seq) + Sum(Tail(seq))
\* MAX over a sequence of numbers, COALESCEd to 0
RECURSIVE Max0(_)
Max0(seq) ==
  IF seq = <<>> THEN 0
  ELSE IF Head(seq) > Max0(Tail(seq)) THEN Head(seq) ELSE Max0(Tail(seq))

\* ------------------------------------------------------------ the season
\* the clock's origin is 1 November, 00:00 local time, of year 0; leap days are
\* left out
DaySecs == 86400
MonthDays == <<30, 31, 31, 28, 31, 30, 31, 30, 31, 31, 30, 31>>   \* from November on
MonthNames == <<11, 12, 1, 2, 3, 4, 5, 6, 7, 8, 9, 10>>
RECURSIVE DaysBefore(_)
DaysBefore(k) == IF k <= 1 THEN 0 ELSE MonthDays[k - 1] + DaysBefore(k - 1)
YearSecs == DaysBefore(13) * DaySecs
DayOfSeason(t) == (t % YearSecs) \div DaySecs
\* now.getMonth() + 1
getMonth(t) ==
  MonthNames[CHOOSE k \in 1..12 :
               DaysBefore(k) <= DayOfSeason(t) /\ DayOfSeason(t) < DaysBefore(k + 1)]
\* now.getFullYear(): the calendar year turns over after December
getFullYear(t) == (t \div YearSecs) + (IF getMonth(t) >= 11 THEN 0 ELSE 1)
\* new Date(year, 10, 1)
November1(year) == year * YearSecs
\* mutant: the season always starts in the current calendar year
getSeasonStart_ThisYear(t) == November1(getFullYear(t))

getSeasonStart(t) ==
  November1(IF getMonth(t) >= 11 THEN getFullYear(t) ELSE getFullYear(t) - 1)

\* ---------------------------------------------------------- responses
\* a response, and with it the request that was answered: req holds the fields of
\* the request the code read before it answered
NoRequest == [email |-> NULL, password |-> NULL, identityToken |-> NULL,
              accessToken |-> NoToken, refreshToken |-> NoToken, run |-> NoRun,
              runs |-> <<>>, id |-> 0, code |-> NULL, limit |-> Undefined,
              offset |-> Undefined, resort |-> NULL, since |-> Undefined, board |-> NULL]
Response(op, status, message, userId, accessToken, refreshToken) ==
  [op |-> op, status |-> status, message |-> message, userId |-> userId,
   accessToken |-> accessToken, refreshToken |-> refreshToken, runId |-> 0,
   results |-> <<>>, total |-> 0, req |-> NoRequest, inviteCode |-> NoCode]
To(req, response) == [response EXCEPT !.req = req]

Failure(op, status, message) == Response(op, status, message, 0, NoToken, NoToken)

\* a request in flight: pc is the await it stands at, the other fields are the
\* handler's locals
Idle == [pc |-> "idle", op |-> "none", req |-> NoRequest, userId |-> 0, startedAt |-> 0,
         existing |-> {}, i |-> 0, results |-> <<>>, friendId |-> 0, inviteCode |-> NoCode,
         response |-> Failure("none", 0, "")]
InFlight == {p \in ProcIds : procs[p].pc # "idle"}
Answer(call, response) == [call EXCEPT !.pc = "done", !.response = To(call.req, response)]

\* ------------------------------------------------------ users lookups
UsersWhere(P(_)) == {u \in DOMAIN users : P(users[u])}
ByEmail(email) == UsersWhere(LAMBDA r : r.email = email)
ByAppleUserId(sub) == UsersWhere(LAMBDA r : r.apple_user_id = sub)

\* ----------------------------------------------------------- invite codes
\* helpers.generateInviteCode: `SKI-${word}-${num}`, word and num drawn at random.
\* A code is modelled by the word it was typed with ("ski" is "SKI" in lower case) and
\* its number; the codes the generator can draw are the upper-case ones below.
Generated == {[word |-> "SKI", num |-> n] : n \in 1..MaxCodes}

\* Date.now(): the wall clock in milliseconds, ms being the part below the second
DateNow(ms) == now * 1000 + ms

\* `SKI-${Date.now().toString(36).toUpperCase().slice(-7)}`: eleven characters where a
\* generated code has twelve, so the two kinds never coincide; the last seven digits
\* of the instants of this model are the instant itself
TimeCode(ms) == [word |-> "SKI-NOW", num |-> DateNow(ms)]

\* users.invite_code
invite_code(userId) == users[userId].invite_code
\* SELECT id FROM users WHERE invite_code = $1
ByInviteCode(code) == {u \in DOMAIN users : invite_code(u) = code}

\* AuthService._uniqueInviteCode from its attempts-th pass on: draws[k] is what the
\* k-th call of generateInviteCode returns
RECURSIVE UniqueInviteCode(_, _, _)
UniqueInviteCode(draws, attempts, ms) ==
  IF ByInviteCode(draws[attempts + 1]) = {} THEN draws[attempts + 1]
  ELSE IF attempts + 1 < MaxAttempts THEN UniqueInviteCode(draws, attempts + 1, ms)
  ELSE TimeCode(ms)

\* the draws of the specifications that are not about the codes: the first draw is
\* the code numbered like the new row, which nobody holds
FreshDraws == [k \in 1..MaxAttempts |-> [word |-> "SKI", num |-> nextUserId]]

\* mutant: a users table without its UNIQUE constraints
UsersConflict_None(row) == NULL

\* INSERT INTO users: the UNIQUE constraint the row violates, or NULL
UsersConflict(row) ==
  IF row.email # NULL /\ ByEmail(row.email) # {} THEN "users_email_key"
  ELSE IF row.apple_user_id # NULL /\ ByAppleUserId(row.apple_user_id) # {}
    THEN "users_apple_user_id_key"
  ELSE IF ByInviteCode(row.invite_code) # {} THEN "users_invite_code_key"
  ELSE NULL

NewUser(email, passwordHash, appleUserId, t, inviteCode) ==
  [email |-> email, password_hash |-> passwordHash, apple_user_id |-> appleUserId,
   is_banned |-> FALSE, last_login_at |-> t, invite_code |-> inviteCode]

\* --------------------------------------------- AuthService._generateTokens
\* the table after the INSERT, before the clean-up
Inserted(table, userId, t) ==
  InsertRefreshToken(table, userId, jwt_sign("refresh", userId, t), t)

\* the table after _generateTokens(user) at time t
GenerateTokens(table, userId, t) == PruneRefreshTokens(Inserted(table, userId, t), userId)

\* the tokens whose row the clean-up deletes
PrunedTokens(table, userId, t) ==
  TokensOfRows(Inserted(table, userId, t), PrunedRows(Inserted(table, userId, t), userId))

Session(op, status, userId, t) ==
  Response(op, status, "ok", userId,
           jwt_sign("access", userId, t), jwt_sign("refresh", userId, t))

\* mutant: the middleware without its is_banned test
authenticate_NoBanCheck(accessToken) ==
  IF accessToken = NoToken THEN [status |-> 401, message |-> "No token provided", user |-> 0]
  ELSE IF ~jwt_verify(accessToken, "access", now)
    THEN [status |-> 401, message |-> "Invalid token", user |-> 0]
  ELSE IF accessToken.userId \notin DOMAIN users
    THEN [status |-> 401, message |-> "User not found", user |-> 0]
  ELSE [status |-> 0, message |-> "next", user |-> accessToken.userId]

\* ------------------------------------------------ middleware authenticate
\* status 0 stands for next(): the handler runs with req.user = user
Rejected(status, message) == [status |-> status, message |-> message, user |-> 0]
authenticate(accessToken) ==
  IF accessToken = NoToken THEN Rejected(401, "No token provided")
  ELSE IF ~jwt_verify(accessToken, "access", now)
    THEN IF accessToken.kind = "access"
           THEN Rejected(401, "Token expired")
           ELSE Rejected(401, "Invalid token")
  ELSE IF accessToken.userId \notin DOMAIN users THEN Rejected(401, "User not found")
  ELSE IF users[accessToken.userId].is_banned THEN Rejected(403, "Account suspended")
  ELSE [status |-> 0, message |-> "next", user |-> accessToken.userId]

\* ------------------------------------------------- POST /v1/auth/register
\* draws and ms are what generateInviteCode and Date.now() return during the call;
\* inviteCode of the response is user.inviteCode, or on a failed INSERT the code the
\* INSERT was given
RegisterDrawing(email, password, draws, ms) ==
  LET req == [NoRequest EXCEPT !.email = email, !.password = password]
      id == nextUserId
      inviteCode == UniqueInviteCode(draws, 0, ms)
      row == NewUser(toLowerCase(email), bcrypt_hash(password), NULL, now, inviteCode)
  IN IF ByEmail(toLowerCase(email)) # {}
       THEN /\ last' = To(req, Failure("register", 409, "Email already registered"))
            /\ UNCHANGED <<sessionVars, runVars, procs, friendships>>
     ELSE IF UsersConflict(row) # NULL
       \* the INSERT throws and the route answers 400 with the driver's message
       THEN /\ last' = [To(req, Failure("register", 400, UsersConflict(row)))
                          EXCEPT !.inviteCode = inviteCode]
            /\ UNCHANGED <<sessionVars, runVars, procs, friendships>>
       ELSE /\ nextUserId <= MaxUsers
            /\ users' = (id :> row) @@ users
            /\ nextUserId' = id + 1
            /\ refresh_tokens' = GenerateTokens(refresh_tokens, id, now)
            /\ removed' = Removed(PrunedTokens(refresh_tokens, id, now))
            /\ issued' = issued + 1
            /\ last' = [To(req, Session("register", 201, id, now))
                          EXCEPT !.inviteCode = inviteCode]
            /\ UNCHANGED <<now, runVars, procs, friendships>>

Register(email, password) == RegisterDrawing(email, password, FreshDraws, 0)

\* mutant: login without its is_banned test
LoginCheck_NoBanCheck(email, password) ==
  IF ByEmail(toLowerCase(email)) = {} THEN "Invalid email or password"
  ELSE LET user == users[CHOOSE u \in ByEmail(toLowerCase(email)) : TRUE]
       IN IF user.password_hash = NoHash
            THEN "This account uses Apple Sign In. Please sign in with Apple."
          ELSE IF ~bcrypt_compare(password, user.password_hash)
            THEN "Invalid email or password"
          ELSE "ok"

\* ---------------------------------------------------- POST /v1/auth/login
\* AuthService.login up to the password check: the error thrown, or "ok"
LoginCheck(email, password) ==
  IF ByEmail(toLowerCase(email)) = {} THEN "Invalid email or password"
  ELSE LET user == users[CHOOSE u \in ByEmail(toLowerCase(email)) : TRUE]
       IN IF user.is_banned THEN "Account suspended"
          ELSE IF user.password_hash = NoHash
            THEN "This account uses Apple Sign In. Please sign in with Apple."
          ELSE IF ~bcrypt_compare(password, user.password_hash)
            THEN "Invalid email or password"
          ELSE "ok"

Login(email, password) ==
  LET req == [NoRequest EXCEPT !.email = toLowerCase(email), !.password = password]
      check == LoginCheck(email, password)
  IN IF check # "ok"
       THEN /\ last' = To(req, Failure("login", 401, check))
            /\ UNCHANGED <<sessionVars, runVars, procs, friendships>>
       ELSE LET id == CHOOSE u \in ByEmail(toLowerCase(email)) : TRUE
            IN /\ users' = [users EXCEPT ![id].last_login_at = now]
               /\ refresh_tokens' = GenerateTokens(refresh_tokens, id, now)
               /\ removed' = Removed(PrunedTokens(refresh_tokens, id, now))
               /\ issued' = issued + 1
               /\ last' = To(req, Session("login", 200, id, now))
               /\ UNCHANGED <<nextUserId, now, runVars, procs, friendships>>

\* ---------------------------------------------------- POST /v1/auth/apple
AppleSignInDrawing(identityToken, draws, ms) ==
  LET req == [NoRequest EXCEPT !.identityToken = identityToken]
      appleUser == verifyIdToken(identityToken)
      inviteCode == UniqueInviteCode(draws, 0, ms)
      row == NewUser(appleUser.email, NoHash, appleUser.sub, now, inviteCode)
  IN IF ~appleUser.ok
       THEN /\ last' = To(req, Failure("apple", 401, "Invalid Apple identity token"))
            /\ UNCHANGED <<sessionVars, runVars, procs, friendships>>
     ELSE IF ByAppleUserId(appleUser.sub) # {}
       THEN LET id == CHOOSE u \in ByAppleUserId(appleUser.sub) : TRUE
            IN /\ users' = [users EXCEPT ![id].last_login_at = now]
               /\ refresh_tokens' = GenerateTokens(refresh_tokens, id, now)
               /\ removed' = Removed(PrunedTokens(refresh_tokens, id, now))
               /\ issued' = issued + 1
               /\ last' = To(req, Session("apple", 200, id, now))
               /\ UNCHANGED <<nextUserId, now, runVars, procs, friendships>>
     ELSE IF UsersConflict(row) # NULL
       \* users.email and users.invite_code are UNIQUE: the INSERT throws and the
       \* route answers 401
       THEN /\ last' = [To(req, Failure("apple", 401, "duplicate key value"))
                          EXCEPT !.inviteCode = inviteCode]
            /\ UNCHANGED <<sessionVars, runVars, procs, friendships>>
     ELSE LET id == nextUserId
          IN /\ nextUserId <= MaxUsers
             /\ users' = (id :> row) @@ users
             /\ nextUserId' = id + 1
             /\ refresh_tokens' = GenerateTokens(refresh_tokens, id, now)
             /\ removed' = Removed(PrunedTokens(refresh_tokens, id, now))
             /\ issued' = issued + 1
             /\ last' = [To(req, Session("apple", 200, id, now))
                          EXCEPT !.inviteCode = inviteCode]
             /\ UNCHANGED <<now, runVars, procs, friendships>>

AppleSignIn(identityToken) == AppleSignInDrawing(identityToken, FreshDraws, 0)

\* -------------------------------------------------- POST /v1/auth/refresh
\* mutant: the user fetched without is_banned = false
RefreshCheck_AnyUser(table, refreshToken, t) ==
  IF ~jwt_verify(refreshToken, "refresh", t) THEN "Invalid refresh token"
  ELSE IF SelectRefreshToken(table, refreshToken, refreshToken.userId, t) = {}
    THEN "Refresh token expired or revoked"
  ELSE IF refreshToken.userId \notin DOMAIN users THEN "User not found"
  ELSE "ok"

\* AuthService.refreshToken up to the two SELECTs: the error thrown, or "ok"
RefreshCheck(table, refreshToken, t) ==
  IF ~jwt_verify(refreshToken, "refresh", t) THEN "Invalid refresh token"
  ELSE IF SelectRefreshToken(table, refreshToken, refreshToken.userId, t) = {}
    THEN "Refresh token expired or revoked"
  ELSE IF UsersWhere(LAMBDA r : ~r.is_banned) \cap {refreshToken.userId} = {}
    THEN "User not found"
  ELSE "ok"

Refresh(refreshToken) ==
  LET req == [NoRequest EXCEPT !.refreshToken = refreshToken]
      check == RefreshCheck(refresh_tokens, refreshToken, now)
      id == refreshToken.userId
      deleted == DeleteByToken(refresh_tokens, refreshToken)
  IN IF check # "ok"
       THEN /\ last' = To(req, Failure("refresh", 401, check))
            /\ UNCHANGED <<sessionVars, runVars, procs, friendships>>
       ELSE /\ refresh_tokens' = GenerateTokens(deleted, id, now)
            /\ removed' = [removed EXCEPT
                 !.consumed = @ \cup {refreshToken},
                 !.deleted = @ \cup {refreshToken} \cup PrunedTokens(deleted, id, now)]
            /\ issued' = issued + 1
            /\ last' = To(req, Session("refresh", 200, id, now))
            /\ UNCHANGED <<users, nextUserId, now, runVars, procs, friendships>>

\* mutant: logout deleting the named token whoever owns it
logout_AnyOwner(table, userId, refreshToken) ==
  IF refreshToken # NoToken
    THEN DeleteByToken(table, refreshToken)
    ELSE DeleteByUser(table, userId)

\* --------------------------------------------------- POST /v1/auth/logout
\* AuthService.logout(userId, refreshToken): the table afterwards
logout(table, userId, refreshToken) ==
  IF refreshToken # NoToken
    THEN DeleteByTokenAndUser(table, refreshToken, userId)
    ELSE DeleteByUser(table, userId)

Logout(accessToken, refreshToken) ==
  LET req == [NoRequest EXCEPT !.accessToken = accessToken]
      auth == authenticate(accessToken)
  IN IF auth.status # 0
       THEN /\ last' = To(req, Failure("logout", auth.status, auth.message))
            /\ UNCHANGED <<sessionVars, runVars, procs, friendships>>
       ELSE /\ refresh_tokens' = logout(refresh_tokens, auth.user, refreshToken)
            /\ removed' = Removed(TokensIn(refresh_tokens) \ TokensIn(logout(refresh_tokens, auth.user, refreshToken)))
            /\ last' = To([req EXCEPT !.refreshToken = refreshToken],
                          Response("logout", 200, "Logged out", auth.user, NoToken, NoToken))
            /\ UNCHANGED <<users, nextUserId, now, issued, runVars, procs, friendships>>

\* ------------------------------------------------- DELETE /v1/auth/account
DeleteAccount(accessToken) ==
  LET req == [NoRequest EXCEPT !.accessToken = accessToken]
      auth == authenticate(accessToken)
  IN IF auth.status # 0
       THEN /\ last' = To(req, Failure("account", auth.status, auth.message))
            /\ UNCHANGED <<sessionVars, runVars, procs, friendships>>
       ELSE /\ users' = [u \in DOMAIN users \ {auth.user} |-> users[u]]
            /\ refresh_tokens' = DeleteByUser(refresh_tokens, auth.user)
            /\ removed' = Removed(TokensOfRows(refresh_tokens,
                              RowsWhere(refresh_tokens, LAMBDA r : r.user_id = auth.user)))
            /\ runs' = SelectSeq(runs, LAMBDA r : r.user_id # auth.user)
            /\ last' = To(req, Response("account", 200, "Account deleted", auth.user, NoToken, NoToken))
            /\ friendships' = SelectSeq(friendships,
                 LAMBDA f : f.user_id # auth.user /\ f.friend_id # auth.user)
            /\ UNCHANGED <<nextUserId, now, issued, nextRunId, procs>>

\* --------------------------------------------------------- GET /v1/profile
\* a protected handler that only reads: it runs once authenticate calls next()
GetProfile(accessToken) ==
  LET req == [NoRequest EXCEPT !.accessToken = accessToken]
      auth == authenticate(accessToken)
  IN /\ last' = To(req, IF auth.status # 0
                           THEN Failure("profile", auth.status, auth.message)
                           ELSE Response("profile", 200, "ok", auth.user, NoToken, NoToken))
     /\ UNCHANGED <<sessionVars, runVars, procs, friendships>>

\* ----------------------------------------------------------- POST /v1/runs
Upload(accessToken, run) ==
  LET req == [NoRequest EXCEPT !.accessToken = accessToken]
      auth == authenticate(accessToken)
      existing == SelectRun(runs, auth.user, run.clientId)
      first == CHOOSE i \in existing : \A j \in existing : i <= j
  IN IF auth.status # 0
       THEN /\ last' = To(req, Failure("upload", auth.status, auth.message))
            /\ UNCHANGED <<sessionVars, runVars, procs, friendships>>
     ELSE IF existing # {}
       THEN /\ runs' = UpdateRun(runs, auth.user, run)
            /\ last' = To([req EXCEPT !.run = run],
                          [Response("upload", 200, "ok", auth.user, NoToken, NoToken)
                             EXCEPT !.runId = runs[first].id])
            /\ UNCHANGED <<sessionVars, nextRunId, procs, friendships>>
     ELSE /\ runs' = InsertRun(runs, nextRunId, auth.user, run)
          /\ nextRunId' = nextRunId + 1
          /\ last' = To([req EXCEPT !.run = run],
                        [Response("upload", 201, "ok", auth.user, NoToken, NoToken)
                           EXCEPT !.runId = nextRunId])
          /\ UNCHANGED <<sessionVars, procs, friendships>>

\* ------------------------------------------------------ POST /v1/runs/bulk
BulkUpload(accessToken, items) ==
  LET req == [NoRequest EXCEPT !.accessToken = accessToken]
      auth == authenticate(accessToken)
      end == BulkLoop([table |-> runs, nextId |-> nextRunId, results |-> <<>>],
                      auth.user, items, 1)
  IN IF auth.status # 0
       THEN /\ last' = To(req, Failure("bulk", auth.status, auth.message))
            /\ UNCHANGED <<sessionVars, runVars, procs, friendships>>
     ELSE IF Len(items) < 1 \/ Len(items) > BulkMax
       THEN /\ last' = To([req EXCEPT !.runs = items],
                          [Failure("bulk", 400, "Validation failed") EXCEPT !.userId = auth.user])
            /\ UNCHANGED <<sessionVars, runVars, procs, friendships>>
       ELSE /\ runs' = end.table
            /\ nextRunId' = end.nextId
            /\ last' = To([req EXCEPT !.runs = items],
                          [Response("bulk", 200, "ok", auth.user, NoToken, NoToken)
                             EXCEPT !.results = end.results])
            /\ UNCHANGED <<sessionVars, procs, friendships>>

\* ------------------------------------ the runs router keyed by run id
\* The repository holds a second runs router, written for a runs table keyed by the
\* id the client sends: the row is written by one INSERT ... ON CONFLICT (id) DO
\* UPDATE that names no client_id.  (Against the client_id NOT NULL column of the
\* schema file every such INSERT would throw and the router would store nothing; it
\* is modelled against the table its statements name.)  An item of its requests is
\* a run id with a body.
IdKeyed(id, run) == [id |-> id, body |-> run]

\* the row the INSERT proposes
IdKeyedRow(item, userId) ==
  [id |-> item.id, user_id |-> userId, client_id |-> NULL, is_deleted |-> FALSE]
    @@ RunColumns(item.body)
\* the row of POST /batch: run.distance || 0 and so on, as in BulkColumns
IdKeyedBatchRow(item, userId) ==
  [id |-> item.id, user_id |-> userId, client_id |-> NULL, is_deleted |-> FALSE]
    @@ [BulkColumns(item.body) EXCEPT !.route_data = RunColumns(item.body).route_data]

\* the columns DO UPDATE SET assigns from EXCLUDED
SetOnConflict == {"run_name", "resort_name", "distance", "max_speed", "elevation_drop",
                  "points", "difficulty", "calories", "route_data"}
BatchSetOnConflict == {"run_name", "points"}

\* of the columns the INSERT names, user_id and start_time are NOT NULL
NotNull(row) == row.user_id # 0 /\ row.start_time # Undefined

\* INSERT INTO runs (id, user_id, ...) VALUES (...) ON CONFLICT (id) DO UPDATE SET ...:
\* PostgreSQL checks NOT NULL on the proposed row before it looks for a conflict; the
\* UPDATE has no WHERE, so it applies to the row of that id whoever owns it
OnConflictId(table, row, columns) ==
  IF ~NotNull(row) THEN [ok |-> FALSE, table |-> table]
  ELSE IF \E i \in DOMAIN table : table[i].id = row.id
    THEN [ok |-> TRUE,
          table |-> [i \in DOMAIN table |->
                       IF table[i].id = row.id
                         THEN [c \in DOMAIN table[i] |->
                                 IF c \in columns THEN row[c] ELSE table[i][c]]
                         ELSE table[i]]]
  ELSE [ok |-> TRUE, table |-> Append(table, row)]

\* POST / of that router: a statement that throws goes to next(err), answered 500
UploadById(accessToken, item) ==
  LET req == [NoRequest EXCEPT !.accessToken = accessToken, !.id = item.id,
                               !.run = item.body]
      auth == authenticate(accessToken)
      written == OnConflictId(runs, IdKeyedRow(item, auth.user), SetOnConflict)
  IN IF auth.status # 0
       THEN /\ last' = To(req, Failure("uploadById", auth.status, auth.message))
            /\ UNCHANGED <<sessionVars, runVars, procs, friendships>>
       ELSE /\ runs' = written.table
            /\ last' = To(req, [Response("uploadById", IF written.ok THEN 201 ELSE 500,
                                          IF written.ok THEN "ok" ELSE "null value in column",
                                          auth.user, NoToken, NoToken)
                                   EXCEPT !.runId = IF written.ok THEN item.id ELSE 0])
            /\ UNCHANGED <<sessionVars, nextRunId, procs, friendships>>

\* the loop of POST /batch from item i on: st = [table, results], an item whose
\* statement throws is pushed to failed
RECURSIVE BatchLoop(_, _, _, _)
BatchLoop(st, userId, items, i) ==
  IF i > Len(items) THEN st
  ELSE LET written == OnConflictId(st.table, IdKeyedBatchRow(items[i], userId),
                                   BatchSetOnConflict)
       IN BatchLoop([table |-> written.table,
                     results |-> Append(st.results,
                        [clientId |-> NULL, serverId |-> items[i].id,
                         status |-> IF written.ok THEN "synced" ELSE "failed"])],
                    userId, items, i + 1)

\* POST /batch of that router
BatchById(accessToken, items) ==
  LET req == [NoRequest EXCEPT !.accessToken = accessToken, !.runs = items]
      auth == authenticate(accessToken)
      end == BatchLoop([table |-> runs, results |-> <<>>], auth.user, items, 1)
  IN IF auth.status # 0
       THEN /\ last' = To(req, Failure("batchById", auth.status, auth.message))
            /\ UNCHANGED <<sessionVars, runVars, procs, friendships>>
     ELSE IF Len(items) = 0 \/ Len(items) > BulkMax
       THEN /\ last' = To(req, [Failure("batchById", 400, "Runs array required")
                                  EXCEPT !.userId = auth.user])
            /\ UNCHANGED <<sessionVars, runVars, procs, friendships>>
       ELSE /\ runs' = end.table
            /\ last' = To(req, [Response("batchById", 200, "ok", auth.user, NoToken, NoToken)
                                   EXCEPT !.results = end.results])
            /\ UNCHANGED <<sessionVars, nextRunId, procs, friendships>>

\* ------------------------------- AuthService.refreshToken, await by await
\* jwt.verify and the SELECT of the row
RefreshStart(p, refreshToken) ==
  LET call == [Idle EXCEPT !.op = "refresh", !.userId = refreshToken.userId,
                           !.startedAt = now,
                           !.req = [NoRequest EXCEPT !.refreshToken = refreshToken]]
  IN /\ procs[p].pc = "idle"
     /\ procs' = [procs EXCEPT ![p] =
          IF ~jwt_verify(refreshToken, "refresh", now)
            THEN Answer(call, Failure("refresh", 401, "Invalid refresh token"))
          ELSE IF SelectRefreshToken(refresh_tokens, refreshToken, refreshToken.userId, now) = {}
            THEN Answer(call, Failure("refresh", 401, "Refresh token expired or revoked"))
          ELSE [call EXCEPT !.pc = "user"]]
     /\ UNCHANGED <<sessionVars, runVars, last, friendships>>

\* the SELECT of the user
RefreshUser(p) ==
  /\ procs[p].pc = "user"
  /\ procs' = [procs EXCEPT ![p] =
       IF UsersWhere(LAMBDA r : ~r.is_banned) \cap {procs[p].userId} = {}
         THEN Answer(procs[p], Failure("refresh", 401, "User not found"))
         ELSE [procs[p] EXCEPT !.pc = "delete"]]
  /\ UNCHANGED <<sessionVars, runVars, last, friendships>>

\* the DELETE of the old token
RefreshDelete(p) ==
  /\ procs[p].pc = "delete"
  /\ refresh_tokens' = DeleteByToken(refresh_tokens, procs[p].req.refreshToken)
  /\ removed' = [removed EXCEPT !.consumed = @ \cup {procs[p].req.refreshToken},
                                !.deleted = @ \cup {procs[p].req.refreshToken}]
  /\ procs' = [procs EXCEPT ![p].pc = "insert"]
  /\ UNCHANGED <<users, nextUserId, now, issued, runVars, last, friendships>>

\* _generateTokens: the two jwt.sign and the INSERT
RefreshInsert(p) ==
  /\ procs[p].pc = "insert"
  /\ refresh_tokens' = Inserted(refresh_tokens, procs[p].userId, now)
  /\ issued' = issued + 1
  /\ procs' = [procs EXCEPT ![p].pc = "prune",
                            ![p].response = Session("refresh", 200, procs[p].userId, now)]
  /\ UNCHANGED <<users, nextUserId, now, removed, runVars, last, friendships>>

\* _generateTokens: the clean-up, and the return
RefreshPrune(p) ==
  /\ procs[p].pc = "prune"
  /\ refresh_tokens' = PruneRefreshTokens(refresh_tokens, procs[p].userId)
  /\ removed' = Removed(TokensOfRows(refresh_tokens, PrunedRows(refresh_tokens, procs[p].userId)))
  /\ procs' = [procs EXCEPT ![p] = Answer(procs[p], procs[p].response)]
  /\ UNCHANGED <<users, nextUserId, now, issued, runVars, last, friendships>>

\* ------------------------- register and appleSignIn, await by await
\* register: the SELECT of the e-mail
RegisterStart(p, email, password) ==
  LET call == [Idle EXCEPT !.op = "register", !.startedAt = now,
                           !.req = [NoRequest EXCEPT !.email = email, !.password = password]]
  IN /\ procs[p].pc = "idle"
     /\ procs' = [procs EXCEPT ![p] =
          IF ByEmail(toLowerCase(email)) # {}
            THEN Answer(call, Failure("register", 409, "Email already registered"))
            ELSE [call EXCEPT !.pc = "code"]]
     /\ UNCHANGED <<sessionVars, runVars, last, friendships>>

\* appleSignIn: verifyIdToken and the SELECT of the subject id
AppleStart(p, identityToken) ==
  LET call == [Idle EXCEPT !.op = "apple", !.startedAt = now,
                           !.req = [NoRequest EXCEPT !.identityToken = identityToken]]
      appleUser == verifyIdToken(identityToken)
  IN /\ procs[p].pc = "idle"
     /\ procs' = [procs EXCEPT ![p] =
          IF ~appleUser.ok
            THEN Answer(call, Failure("apple", 401, "Invalid Apple identity token"))
          ELSE IF ByAppleUserId(appleUser.sub) # {}
            THEN [call EXCEPT !.pc = "touch",
                              !.userId = CHOOSE u \in ByAppleUserId(appleUser.sub) : TRUE]
          ELSE [call EXCEPT !.pc = "code"]]
     /\ UNCHANGED <<sessionVars, runVars, last, friendships>>

\* appleSignIn of a known subject: UPDATE users SET last_login_at = NOW()
SignupTouch(p) ==
  /\ procs[p].pc = "touch"
  /\ users' = [users EXCEPT ![procs[p].userId].last_login_at = now]
  /\ procs' = [procs EXCEPT ![p].pc = "tokens"]
  /\ UNCHANGED <<nextUserId, refresh_tokens, now, issued, removed, runVars, last, friendships>>

\* one pass of the loop of _uniqueInviteCode: generateInviteCode returns draw, the
\* SELECT looks for a holder; after the last pass the code is made of Date.now()
SignupCode(p, draw, ms) ==
  LET call == procs[p]
  IN /\ call.pc = "code"
     /\ procs' = [procs EXCEPT ![p] =
          IF ByInviteCode(draw) = {}
            THEN [call EXCEPT !.pc = "insert-user", !.inviteCode = draw]
          ELSE IF call.i + 1 < MaxAttempts THEN [call EXCEPT !.i = call.i + 1]
          ELSE [call EXCEPT !.pc = "insert-user", !.inviteCode = TimeCode(ms)]]
     /\ UNCHANGED <<sessionVars, runVars, last, friendships>>

\* INSERT INTO users ... RETURNING *: a violated UNIQUE constraint throws, answered
\* 400 by the register route and 401 by the Apple route
SignupInsert(p) ==
  LET call == procs[p]
      appleUser == verifyIdToken(call.req.identityToken)
      row == IF call.op = "register"
               THEN NewUser(toLowerCase(call.req.email), bcrypt_hash(call.req.password),
                            NULL, now, call.inviteCode)
               ELSE NewUser(appleUser.email, NoHash, appleUser.sub, now, call.inviteCode)
      id == nextUserId
  IN /\ call.pc = "insert-user"
     /\ IF UsersConflict(row) # NULL
          THEN /\ procs' = [procs EXCEPT ![p] =
                    Answer(call, [Failure(call.op, IF call.op = "register" THEN 400 ELSE 401,
                                          IF call.op = "register" THEN UsersConflict(row)
                                                                  ELSE "duplicate key value")
                                    EXCEPT !.inviteCode = call.inviteCode])]
               /\ UNCHANGED <<users, nextUserId>>
          ELSE /\ nextUserId <= MaxUsers
               /\ users' = (id :> row) @@ users
               /\ nextUserId' = id + 1
               /\ procs' = [procs EXCEPT ![p].pc = "tokens", ![p].userId = id]
     /\ UNCHANGED <<refresh_tokens, now, issued, removed, runVars, last, friendships>>

\* _generateTokens: the two jwt.sign and the INSERT; the clean-up is RefreshPrune
SignupTokens(p) ==
  LET call == procs[p]
  IN /\ call.pc = "tokens"
     /\ refresh_tokens' = Inserted(refresh_tokens, call.userId, now)
     /\ issued' = issued + 1
     /\ procs' = [procs EXCEPT ![p].pc = "prune",
                               ![p].response =
                                 [Session(call.op, IF call.op = "register" THEN 201 ELSE 200,
                                          call.userId, now)
                                    EXCEPT !.inviteCode = invite_code(call.userId)]]
     /\ UNCHANGED <<users, nextUserId, now, removed, runVars, last, friendships>>

\* ---------------------------------------------- POST /v1/runs, await by await
\* the middleware, whose SELECT of the user is the first await
UploadStart(p, accessToken, run) ==
  LET auth == authenticate(accessToken)
      call == [Idle EXCEPT !.op = "upload", !.userId = auth.user, !.startedAt = now,
                           !.req = [NoRequest EXCEPT !.accessToken = accessToken, !.run = run]]
  IN /\ procs[p].pc = "idle"
     /\ procs' = [procs EXCEPT ![p] =
          IF auth.status # 0
            THEN Answer(call, Failure("upload", auth.status, auth.message))
            ELSE [call EXCEPT !.pc = "select"]]
     /\ UNCHANGED <<sessionVars, runVars, last, friendships>>

\* SELECT id FROM runs WHERE user_id = $1 AND client_id = $2
UploadSelect(p) ==
  /\ procs[p].pc = "select"
  /\ procs' = [procs EXCEPT ![p].pc = "write",
                            ![p].existing = {runs[i].id : i \in
                               SelectRun(runs, procs[p].userId, procs[p].req.run.clientId)}]
  /\ UNCHANGED <<sessionVars, runVars, last, friendships>>

\* the UPDATE if the SELECT found a row, the INSERT if it did not
UploadWrite(p) ==
  LET call == procs[p]
      updated == SelectRun(runs, call.userId, call.req.run.clientId)
      first == CHOOSE i \in updated : \A j \in updated : i <= j
  IN /\ call.pc = "write"
     /\ IF call.existing # {}
          THEN /\ runs' = UpdateRun(runs, call.userId, call.req.run)
               /\ procs' = [procs EXCEPT ![p] = Answer(call,
                     [Response("upload", 200, "ok", call.userId, NoToken, NoToken)
                        EXCEPT !.runId = runs[first].id])]
               /\ UNCHANGED nextRunId
          ELSE /\ runs' = InsertRun(runs, nextRunId, call.userId, call.req.run)
               /\ nextRunId' = nextRunId + 1
               /\ procs' = [procs EXCEPT ![p] = Answer(call,
                     [Response("upload", 201, "ok", call.userId, NoToken, NoToken)
                        EXCEPT !.runId = nextRunId])]
     /\ UNCHANGED <<sessionVars, last, friendships>>

\* ----------------------------------------- POST /v1/runs/bulk, await by await
BulkStart(p, accessToken, items) ==
  LET auth == authenticate(accessToken)
      call == [Idle EXCEPT !.op = "bulk", !.userId = auth.user, !.startedAt = now, !.i = 1,
                           !.req = [NoRequest EXCEPT !.accessToken = accessToken,
                                                     !.runs = items]]
  IN /\ procs[p].pc = "idle"
     /\ procs' = [procs EXCEPT ![p] =
          IF auth.status # 0
            THEN Answer(call, Failure("bulk", auth.status, auth.message))
          ELSE IF Len(items) < 1 \/ Len(items) > BulkMax
            THEN Answer(call, Failure("bulk", 400, "Validation failed"))
          ELSE [call EXCEPT !.pc = "bulk-select"]]
     /\ UNCHANGED <<sessionVars, runVars, last, friendships>>

\* the loop's SELECT for item i
BulkSelect(p) ==
  /\ procs[p].pc = "bulk-select"
  /\ procs' = [procs EXCEPT ![p].pc = "bulk-write",
                            ![p].existing = {runs[i].id : i \in SelectRun(runs, procs[p].userId,
                               procs[p].req.runs[procs[p].i].clientId)}]
  /\ UNCHANGED <<sessionVars, runVars, last, friendships>>

\* the loop's push of 'exists', or its INSERT, for item i; the answer after the last
BulkWrite(p) ==
  LET call == procs[p]
      run == call.req.runs[call.i]
      result == IF call.existing # {}
                  THEN [clientId |-> run.clientId, status |-> "exists",
                        serverId |-> CHOOSE id \in call.existing : \A o \in call.existing : id <= o]
                ELSE IF BulkInsertFails(run)
                  THEN [clientId |-> run.clientId, status |-> "error", serverId |-> 0]
                ELSE [clientId |-> run.clientId, status |-> "created", serverId |-> nextRunId]
      after == [call EXCEPT !.results = Append(@, result), !.i = @ + 1, !.existing = {},
                            !.pc = "bulk-select"]
  IN /\ call.pc = "bulk-write"
     /\ IF result.status = "created"
          THEN /\ runs' = BulkInsertRun(runs, nextRunId, call.userId, run)
               /\ nextRunId' = nextRunId + 1
          ELSE UNCHANGED runVars
     /\ procs' = [procs EXCEPT ![p] =
          IF after.i > Len(call.req.runs)
            THEN Answer(after, [Response("bulk", 200, "ok", call.userId, NoToken, NoToken)
                                  EXCEPT !.results = after.results])
            ELSE after]
     /\ UNCHANGED <<sessionVars, last, friendships>>

\* the response leaves the server
Reply(p) ==
  /\ procs[p].pc = "done"
  /\ last' = procs[p].response
  /\ procs' = [procs EXCEPT ![p] = Idle]
  /\ UNCHANGED <<sessionVars, runVars, friendships>>

\* ------------------------------------------------------ DELETE /v1/runs/:id
SoftDelete(accessToken, id) ==
  LET req == [NoRequest EXCEPT !.accessToken = accessToken, !.id = id]
      auth == authenticate(accessToken)
  IN IF auth.status # 0
       THEN /\ last' = To(req, Failure("delete", auth.status, auth.message))
            /\ UNCHANGED <<sessionVars, runVars, procs, friendships>>
     ELSE IF SoftDeleted(runs, id, auth.user) = {}
       THEN /\ last' = To(req, [Failure("delete", 404, "Run not found") EXCEPT !.userId = auth.user])
            /\ UNCHANGED <<sessionVars, runVars, procs, friendships>>
     ELSE /\ runs' = SetDeleted(runs, id, auth.user)
          /\ last' = To(req, [Response("delete", 200, "Run deleted", auth.user, NoToken, NoToken)
                                EXCEPT !.runId = id])
          /\ UNCHANGED <<sessionVars, nextRunId, procs, friendships>>

\* --------------------------------------------------------- GET /v1/runs/:id
GetRun(accessToken, id) ==
  LET req == [NoRequest EXCEPT !.accessToken = accessToken, !.id = id]
      auth == authenticate(accessToken)
      found == SelectRunById(runs, id, auth.user)
  IN /\ last' = To(req,
          IF auth.status # 0 THEN Failure("getRun", auth.status, auth.message)
          ELSE IF found = {}
            THEN [Failure("getRun", 404, "Run not found") EXCEPT !.userId = auth.user]
          ELSE [Response("getRun", 200, "ok", auth.user, NoToken, NoToken)
                  EXCEPT !.results = <<formatRunFull(runs[CHOOSE i \in found : TRUE])>>])
     /\ UNCHANGED <<sessionVars, runVars, procs, friendships>>

\* ------------------------------------------------------------ GET /v1/runs
ListRuns(accessToken, limit, offset, resort, since) ==
  LET req == [NoRequest EXCEPT !.accessToken = accessToken, !.limit = limit,
                               !.offset = offset, !.resort = resort, !.since = since]
      auth == authenticate(accessToken)
      matching == SelectMyRuns(runs, auth.user, resort, since)
  IN /\ IF auth.status # 0
          THEN last' = To(req, Failure("listRuns", auth.status, auth.message))
        ELSE IF \/ limit # Undefined /\ (limit < 1 \/ limit > ListLimitMax)
                \/ offset # Undefined /\ offset < 0
          THEN last' = To(req, [Failure("listRuns", 400, "Validation failed")
                                  EXCEPT !.userId = auth.user])
        ELSE \E ordered \in OrderByStartTime(matching) :
               last' = To(req,
                 [Response("listRuns", 200, "ok", auth.user, NoToken, NoToken)
                    EXCEPT !.results = Page([i \in 1..Len(ordered) |-> formatRun(ordered[i])],
                                            OrDefault(limit, ListLimitDefault),
                                            OrDefault(offset, 0)),
                           !.total = Cardinality(matching)])
     /\ UNCHANGED <<sessionVars, runVars, procs, friendships>>

\* ------------------------------------------------------------- friendships
\* req.params.code.toUpperCase().trim()
toUpperCase(code) == [code EXCEPT !.word = IF @ = "ski" THEN "SKI" ELSE @]
CodeInputs == {[word |-> w, num |-> n] : w \in {"SKI", "ski"}, n \in 1..(MaxUsers + 1)}

\* mutant: the look-up of an edge the other user initiated only
Between_ReverseOnly(table, a, b) ==
  RowsWhere(table, LAMBDA f : f.user_id = b /\ f.friend_id = a)

\* mutant: the look-up of an edge the caller initiated only
Between_OneDirection(table, a, b) ==
  RowsWhere(table, LAMBDA f : f.user_id = a /\ f.friend_id = b)

\* mutant: the count of the edges the caller initiated only
Accepted_Outgoing(table, userId) ==
  RowsWhere(table, LAMBDA f : f.user_id = userId /\ f.status = "accepted")

\* mutant: the friends as the users the caller added only
FriendIds_Outgoing(table, userId) ==
  {table[i].friend_id :
     i \in RowsWhere(table, LAMBDA f : f.user_id = userId /\ f.status = "accepted")}

\* the friendships rows between two users, in either direction
Between(table, a, b) ==
  RowsWhere(table, LAMBDA f : \/ f.user_id = a /\ f.friend_id = b
                              \/ f.user_id = b /\ f.friend_id = a)
\* WHERE (user_id = $1 OR friend_id = $1) AND status = 'accepted'
Accepted(table, userId) ==
  RowsWhere(table, LAMBDA f : (f.user_id = userId \/ f.friend_id = userId)
                              /\ f.status = "accepted")
\* CASE WHEN user_id = $1 THEN friend_id ELSE user_id END
FriendIds(table, userId) ==
  {IF table[i].user_id = userId THEN table[i].friend_id ELSE table[i].user_id :
     i \in Accepted(table, userId)}

\* ----------------------------------------- POST /v1/friends/invite/:code
\* mutant: the row with the column default of status
NewFriendship_Pending(userId, friendId) ==
  [user_id |-> userId, friend_id |-> friendId, status |-> "pending"]

\* INSERT INTO friendships (user_id, friend_id, status) VALUES ($1, $2, 'accepted')
NewFriendship(userId, friendId) ==
  [user_id |-> userId, friend_id |-> friendId, status |-> "accepted"]

\* UNIQUE(user_id, friend_id): the INSERT throws when the same ordered pair has a row
UniqueViolation(table, userId, friendId) ==
  RowsWhere(table, LAMBDA f : f.user_id = userId /\ f.friend_id = friendId) # {}


\* existing.rows[0].status, NULL when the SELECT returns no row
ExistingStatus(table, a, b) ==
  LET existing == Between(table, a, b)
  IN IF existing = {} THEN NULL
     ELSE table[CHOOSE i \in existing : \A k \in existing : i <= k].status

AddFriend(accessToken, code) ==
  LET req == [NoRequest EXCEPT !.accessToken = accessToken, !.code = code]
      auth == authenticate(accessToken)
      found == ByInviteCode(toUpperCase(code))
      friendId == CHOOSE u \in found : TRUE
      status == ExistingStatus(friendships, auth.user, friendId)
      refuse(st, message) ==
        /\ last' = To(req, [Failure("addFriend", st, message) EXCEPT !.userId = auth.user])
        /\ UNCHANGED <<sessionVars, runVars, procs, friendships>>
  IN IF auth.status # 0
       THEN /\ last' = To(req, Failure("addFriend", auth.status, auth.message))
            /\ UNCHANGED <<sessionVars, runVars, procs, friendships>>
     ELSE IF found = {} THEN refuse(404, "No user found with that invite code")
     ELSE IF friendId = auth.user THEN refuse(400, "That's your own invite code!")
     ELSE IF Cardinality(Accepted(friendships, auth.user)) >= MAX_FRIENDS
       THEN refuse(400, "Friend limit reached")
     ELSE IF status = "accepted" THEN refuse(400, "Already friends")
     ELSE IF status = "pending" THEN refuse(400, "Friend request already pending")
     ELSE IF status = "blocked" THEN refuse(400, "Unable to send request")
     ELSE IF UniqueViolation(friendships, auth.user, friendId)
       THEN refuse(500, "Failed to add friend")
     ELSE /\ friendships' = Append(friendships, NewFriendship(auth.user, friendId))
          /\ last' = To(req, Response("addFriend", 201, "Friend added!", auth.user,
                                      NoToken, NoToken))
          /\ UNCHANGED <<sessionVars, runVars, procs>>

\* ------------------------- POST /v1/friends/invite/:code, await by await
\* authenticate, then the handler reads req.params.code
FriendStart(p, accessToken, code) ==
  LET auth == authenticate(accessToken)
      call == [Idle EXCEPT !.op = "addFriend", !.userId = auth.user, !.startedAt = now,
                           !.req = [NoRequest EXCEPT !.accessToken = accessToken,
                                                     !.code = code]]
  IN /\ procs[p].pc = "idle"
     /\ procs' = [procs EXCEPT ![p] =
          IF auth.status # 0
            THEN Answer(call, Failure("addFriend", auth.status, auth.message))
            ELSE [call EXCEPT !.pc = "lookup"]]
     /\ UNCHANGED <<sessionVars, runVars, last, friendships>>

\* SELECT id, display_name FROM users WHERE invite_code = $1, and the self check
FriendLookup(p) ==
  LET call == procs[p]
      found == ByInviteCode(toUpperCase(call.req.code))
      friendId == CHOOSE u \in found : TRUE
      refused(st, message) ==
        Answer(call, [Failure("addFriend", st, message) EXCEPT !.userId = call.userId])
  IN /\ call.pc = "lookup"
     /\ procs' = [procs EXCEPT ![p] =
          IF found = {} THEN refused(404, "No user found with that invite code")
          ELSE IF friendId = call.userId THEN refused(400, "That's your own invite code!")
          ELSE [call EXCEPT !.pc = "count", !.friendId = friendId]]
     /\ UNCHANGED <<sessionVars, runVars, last, friendships>>

\* SELECT COUNT(*) ... AND status = 'accepted'
FriendCount(p) ==
  LET call == procs[p]
  IN /\ call.pc = "count"
     /\ procs' = [procs EXCEPT ![p] =
          IF Cardinality(Accepted(friendships, call.userId)) >= MAX_FRIENDS
            THEN Answer(call, [Failure("addFriend", 400, "Friend limit reached")
                                 EXCEPT !.userId = call.userId])
            ELSE [call EXCEPT !.pc = "existing"]]
     /\ UNCHANGED <<sessionVars, runVars, last, friendships>>

\* SELECT status FROM friendships between the two users
FriendExisting(p) ==
  LET call == procs[p]
      status == ExistingStatus(friendships, call.userId, call.friendId)
      refused(message) ==
        Answer(call, [Failure("addFriend", 400, message) EXCEPT !.userId = call.userId])
  IN /\ call.pc = "existing"
     /\ procs' = [procs EXCEPT ![p] =
          IF status = "accepted" THEN refused("Already friends")
          ELSE IF status = "pending" THEN refused("Friend request already pending")
          ELSE IF status = "blocked" THEN refused("Unable to send request")
          ELSE [call EXCEPT !.pc = "insert-friend"]]
     /\ UNCHANGED <<sessionVars, runVars, last, friendships>>

\* the INSERT; a violated UNIQUE(user_id, friend_id) is caught and answered 500
FriendInsert(p) ==
  LET call == procs[p]
  IN /\ call.pc = "insert-friend"
     /\ IF UniqueViolation(friendships, call.userId, call.friendId)
          THEN /\ procs' = [procs EXCEPT ![p] =
                    Answer(call, [Failure("addFriend", 500, "Failed to add friend")
                                    EXCEPT !.userId = call.userId])]
               /\ UNCHANGED friendships
          ELSE /\ friendships' = Append(friendships,
                                        NewFriendship(call.userId, call.friendId))
               /\ procs' = [procs EXCEPT ![p] =
                    Answer(call, Response("addFriend", 201, "Friend added!", call.userId,
                                          NoToken, NoToken))]
     /\ UNCHANGED <<sessionVars, runVars, last>>

\* ------------------------------------------------- DELETE /v1/friends/:id
\* mutant: the DELETE that matches only the edges the caller initiated
DeleteFriendship_OwnOnly(table, userId, id) ==
  SelectSeq(table, LAMBDA f : ~(f.user_id = userId /\ f.friend_id = id
                                /\ f.status # "blocked"))

\* DELETE FROM friendships WHERE ((user_id = $1 AND friend_id = $2) OR
\* (user_id = $2 AND friend_id = $1)) AND status != 'blocked'
DeleteFriendship(table, userId, id) ==
  SelectSeq(table, LAMBDA f :
    ~(/\ (f.user_id = userId /\ f.friend_id = id) \/ (f.user_id = id /\ f.friend_id = userId)
      /\ f.status # "blocked"))

RemoveFriend(accessToken, id) ==
  LET req == [NoRequest EXCEPT !.accessToken = accessToken, !.id = id]
      auth == authenticate(accessToken)
      rest == DeleteFriendship(friendships, auth.user, id)
  IN IF auth.status # 0
       THEN /\ last' = To(req, Failure("removeFriend", auth.status, auth.message))
            /\ UNCHANGED <<sessionVars, runVars, procs, friendships>>
     ELSE IF Len(rest) = Len(friendships)
       THEN /\ last' = To(req, [Failure("removeFriend", 404, "Friendship not found")
                                  EXCEPT !.userId = auth.user])
            /\ UNCHANGED <<sessionVars, runVars, procs, friendships>>
     ELSE /\ friendships' = rest
          /\ last' = To(req, Response("removeFriend", 200, "Friend removed", auth.user,
                                      NoToken, NoToken))
          /\ UNCHANGED <<sessionVars, runVars, procs>>

\* ------------------------------------------------ GET /v1/friends/pending
\* WHERE (f.user_id = $1 OR f.friend_id = $1) AND f.status = 'pending', joined to users
Pending(table, userId) ==
  {[userId |-> IF table[i].user_id = userId THEN table[i].friend_id ELSE table[i].user_id,
    direction |-> IF table[i].user_id = userId THEN "sent" ELSE "received"] :
     i \in RowsWhere(table, LAMBDA f : (f.user_id = userId \/ f.friend_id = userId)
                                       /\ f.status = "pending")}

ListPending(accessToken) ==
  LET req == [NoRequest EXCEPT !.accessToken = accessToken]
      auth == authenticate(accessToken)
  IN /\ IF auth.status # 0
          THEN last' = To(req, Failure("pending", auth.status, auth.message))
          ELSE \E ordered \in Orderings(Pending(friendships, auth.user)) :
                 last' = To(req, [Response("pending", 200, "ok", auth.user, NoToken, NoToken)
                                    EXCEPT !.results = ordered])
     /\ UNCHANGED <<sessionVars, runVars, procs, friendships>>

\* ------------------------------------------------ GET /v1/friends/:id/runs
ListFriendRuns(accessToken, id, limit, offset) ==
  LET req == [NoRequest EXCEPT !.accessToken = accessToken, !.id = id, !.limit = limit,
                               !.offset = offset]
      auth == authenticate(accessToken)
      matching == SelectMyRuns(runs, id, NULL, Undefined)
  IN /\ IF auth.status # 0
          THEN last' = To(req, Failure("friendRuns", auth.status, auth.message))
        ELSE IF id \notin FriendIds(friendships, auth.user)
          THEN last' = To(req, [Failure("friendRuns", 403, "Not friends with this user")
                                  EXCEPT !.userId = auth.user])
        ELSE \E ordered \in OrderByStartTime(matching) :
               last' = To(req,
                 [Response("friendRuns", 200, "ok", auth.user, NoToken, NoToken)
                    EXCEPT !.results =
                      Page([i \in 1..Len(ordered) |-> formatFriendRun(ordered[i])],
                           OrDefault(limit, FriendRunsLimit), OrDefault(offset, 0))])
     /\ UNCHANGED <<sessionVars, runVars, procs, friendships>>

\* ---------------------------------------------------------- GET /v1/friends
\* the stats query of one friend
FriendStats(table, userId) ==
  LET mine == SelectSeq(table, LAMBDA r : r.user_id = userId /\ ~r.is_deleted)
  IN [userId |-> userId, runId |-> 0, runs |-> Len(mine),
      value |-> Sum([i \in 1..Len(mine) |-> mine[i].points]),
      topSpeed |-> Max0([i \in 1..Len(mine) |-> mine[i].max_speed]),
      totalVert |-> Sum([i \in 1..Len(mine) |-> mine[i].elevation_drop])]

ListFriends(accessToken) ==
  LET req == [NoRequest EXCEPT !.accessToken = accessToken]
      auth == authenticate(accessToken)
      friends == {FriendStats(runs, u) : u \in FriendIds(friendships, auth.user)}
  IN /\ IF auth.status # 0
          THEN last' = To(req, Failure("friends", auth.status, auth.message))
          ELSE \E ordered \in Orderings(friends) :
                 last' = To(req, [Response("friends", 200, "ok", auth.user, NoToken, NoToken)
                                    EXCEPT !.results = ordered])
     /\ UNCHANGED <<sessionVars, runVars, procs, friendships>>

\* --------------------------------------------------- GET /v1/leaderboard/*
Boards == {"season", "speed", "vert", "distance"}
\* mutant: the board over every user
getFriendIds_AllUsers(userId) == DOMAIN users

\* getFriendIds: the caller and the accepted friends
getFriendIds(userId) == {userId} \cup FriendIds(friendships, userId)

\* one row of the season, vert and distance queries: LEFT JOIN runs ... GROUP BY u.id
BoardRow(table, board, userId, seasonStart) ==
  LET joined == SelectSeq(table, LAMBDA r :
                  r.user_id = userId /\ ~r.is_deleted /\ r.start_time >= seasonStart)
  IN [userId |-> userId, runId |-> 0, runs |-> Len(joined),
      value |-> Sum([i \in 1..Len(joined) |->
                       IF board = "season" THEN joined[i].points
                       ELSE IF board = "vert" THEN joined[i].elevation_drop
                       ELSE joined[i].distance]),
      topSpeed |-> 0, totalVert |-> 0]

\* one row of the speed query: JOIN users ... WHERE r.is_deleted = false
SpeedRows(table, userIds) ==
  {[userId |-> table[i].user_id, runId |-> table[i].id, runs |-> 0,
    value |-> table[i].max_speed, topSpeed |-> 0, totalVert |-> 0] :
     i \in RowsWhere(table, LAMBDA r : r.user_id \in userIds /\ ~r.is_deleted)}

\* result.rows.map((r, i) => ({ rank: i + 1, ..., isYou: r.id === req.user.id, ... }))
Ranked(rows, userId) ==
  [i \in 1..Len(rows) |-> [rank |-> i, isYou |-> rows[i].userId = userId] @@ rows[i]]

Leaderboard(accessToken, board) ==
  LET req == [NoRequest EXCEPT !.accessToken = accessToken, !.board = board]
      auth == authenticate(accessToken)
      userIds == getFriendIds(auth.user) \cap DOMAIN users
      rows == IF board = "speed" THEN SpeedRows(runs, userIds)
              ELSE {BoardRow(runs, board, u, getSeasonStart(now)) : u \in userIds}
  IN /\ IF auth.status # 0
          THEN last' = To(req, Failure("leaderboard", auth.status, auth.message))
          ELSE \E ordered \in OrderByValue(rows) :
                 last' = To(req,
                   [Response("leaderboard", 200, "ok", auth.user, NoToken, NoToken)
                      EXCEPT !.results = Ranked(IF board = "speed"
                                                  THEN Page(ordered, SpeedBoardLimit, 0)
                                                  ELSE ordered, auth.user)])
     /\ UNCHANGED <<sessionVars, runVars, procs, friendships>>

\* ------------------------------------------------------------ environment
\* an operator sets users.is_banned in the database (no route does)
Ban(userId) ==
  /\ userId \in DOMAIN users
  /\ ~users[userId].is_banned
  /\ users' = [users EXCEPT ![userId].is_banned = TRUE]
  /\ last' = Failure("ban", 0, "")
  /\ UNCHANGED <<nextUserId, refresh_tokens, now, issued, removed, runVars, procs, friendships>>

\* an operator sets friendships.status to 'blocked' in the database (no route does)
Block(i) ==
  /\ i \in DOMAIN friendships
  /\ friendships[i].status = "accepted"
  /\ friendships' = [friendships EXCEPT ![i].status = "blocked"]
  /\ last' = Failure("block", 0, "")
  /\ UNCHANGED <<sessionVars, runVars, procs>>

\* time passes
Tick(t) ==
  /\ t > now
  /\ now' = t
  /\ last' = Failure("tick", 0, "")
  /\ UNCHANGED <<users, nextUserId, refresh_tokens, issued, removed, runVars, procs, friendships>>

\* ------------------------------------------------------------------ Spec
\* the tokens a client can hold: every token pair signed so far (its refresh token
\* has a row or had one), or junk
Presentable(kind) ==
  {Garbage} \cup
  {jwt_sign(kind, tok.userId, tok.iat) : tok \in TokensIn(refresh_tokens) \cup removed.deleted}

Init ==
  /\ users = [u \in {} |-> NULL]
  /\ nextUserId = 1
  /\ refresh_tokens = <<>>
  /\ now = 0
  /\ issued = 0
  /\ removed = NothingRemoved
  /\ last = Failure("none", 0, "")
  /\ runs = <<>>
  /\ nextRunId = 1
  /\ procs = [p \in ProcIds |-> Idle]
  /\ friendships = <<>>

Next ==
  \/ \E email \in EmailInputs, password \in RegisterPasswords :
        issued < MaxIssue /\ Register(email, password)
  \/ \E email \in EmailInputs, password \in Passwords :
        issued < MaxIssue /\ Login(email, password)
  \/ \E identityToken \in AppleIdTokens : issued < MaxIssue /\ AppleSignIn(identityToken)
  \/ \E refreshToken \in Presentable("refresh") : issued < MaxIssue /\ Refresh(refreshToken)
  \/ \E accessToken \in Presentable("access") \cup {NoToken},
        refreshToken \in Presentable("refresh") \cup {NoToken} :
        Logout(accessToken, refreshToken)
  \/ \E accessToken \in Presentable("access") \cup {NoToken} : DeleteAccount(accessToken)
  \/ \E accessToken \in Presentable("access") \cup {NoToken} : GetProfile(accessToken)
  \/ \E userId \in UserIds : Ban(userId)
  \/ \E t \in Instants : Tick(t)

Spec == Init /\ [][Next]_vars

\* SpecPrune: sessions issued one after the other with no logout in between, far
\* enough for the clean-up of _generateTokens to delete rows
NextPrune ==
  \/ \E email \in {"a@x.io"}, password \in RegisterPasswords :
        issued < MaxPruneIssue /\ Register(email, password)
  \/ \E email \in {"a@x.io"}, password \in Passwords :
        issued < MaxPruneIssue /\ Login(email, password)
  \/ \E identityToken \in AppleIdTokens :
        issued < MaxPruneIssue /\ AppleSignIn(identityToken)
  \/ \E refreshToken \in Presentable("refresh") :
        issued < MaxPruneIssue /\ Refresh(refreshToken)
  \/ \E t \in 0..MaxSecs : Tick(t)

SpecPrune == Init /\ [][NextPrune]_vars

\* SpecRuns: two accounts uploading runs, one request after the other
RunIds == 1..(MaxRuns + 1)
\* items of a bulk upload: two that can be stored, one with no clientId and one with
\* no startTime, whose INSERT violates NOT NULL
BulkItems == {r \in RunInputs : r.distance = 5}
               \cup {[NoRun EXCEPT !.startTime = 1], [NoRun EXCEPT !.clientId = "c1"]}
\* bodies of a bulk upload: none, a few, and one run more than BulkMax
BulkInputs ==
  UNION {[1..n -> BulkItems] : n \in 0..MaxBulk}
    \cup {[i \in 1..(BulkMax + 1) |->
             CHOOSE r \in RunInputs : r.distance = 5 /\ r.clientId = "c1"]}
ClientIdsOf(items) == {items[i].clientId : i \in 1..Len(items)} \cap ClientIds
NextRuns ==
  \/ \E email \in {"a@x.io", "b@x.io"}, password \in RegisterPasswords :
        issued < MaxIssue /\ Register(email, password)
  \/ \E accessToken \in Presentable("access") \cup {NoToken}, run \in RunInputs :
        nextRunId <= MaxRuns /\ Upload(accessToken, run)
  \/ \E accessToken \in Presentable("access") \cup {NoToken}, items \in BulkInputs :
        nextRunId + Cardinality(ClientIdsOf(items)) <= MaxRuns + 1
          /\ BulkUpload(accessToken, items)

SpecRuns == Init /\ [][NextRuns]_vars

\* SpecRefreshRace: refresh calls of one account whose awaits interleave
NextRefreshRace ==
  \/ \E email \in {"a@x.io"}, password \in RegisterPasswords :
        issued + Cardinality(InFlight) < MaxIssue /\ Register(email, password)
  \/ \E p \in ProcIds, refreshToken \in Presentable("refresh") :
        issued + Cardinality(InFlight) < MaxIssue /\ RefreshStart(p, refreshToken)
  \/ \E p \in ProcIds : RefreshUser(p)
  \/ \E p \in ProcIds : RefreshDelete(p)
  \/ \E p \in ProcIds : RefreshInsert(p)
  \/ \E p \in ProcIds : RefreshPrune(p)
  \/ \E p \in ProcIds : Reply(p)
  \/ \E userId \in UserIds : Ban(userId)
  \/ \E t \in 0..MaxSecs : Tick(t)

SpecRefreshRace == Init /\ [][NextRefreshRace]_vars

\* SpecRunsRace: uploads of one account whose awaits interleave
RaceItems == {r \in RunInputs : r.distance = 5}
RaceBulkInputs == UNION {[1..n -> RaceItems] : n \in 1..MaxBulk}
NextRunsRace ==
  \/ \E email \in {"a@x.io"}, password \in RegisterPasswords :
        issued < 1 /\ Register(email, password)
  \/ \E p \in ProcIds, accessToken \in Presentable("access"), run \in RaceItems :
        nextRunId + Cardinality(InFlight) <= MaxRuns /\ UploadStart(p, accessToken, run)
  \/ \E p \in ProcIds : UploadSelect(p)
  \/ \E p \in ProcIds : UploadWrite(p)
  \/ \E p \in ProcIds, accessToken \in Presentable("access"), items \in RaceBulkInputs :
        /\ nextRunId + Cardinality(InFlight) + Len(items) <= MaxRuns + 1
        /\ BulkStart(p, accessToken, items)
  \/ \E p \in ProcIds : BulkSelect(p)
  \/ \E p \in ProcIds : BulkWrite(p)
  \/ \E p \in ProcIds : Reply(p)

SpecRunsRace == Init /\ [][NextRunsRace]_vars

\* SpecDelete: two accounts uploading runs, deleting runs and deleting themselves
NextDelete ==
  \/ \E email \in {"a@x.io", "b@x.io"}, password \in RegisterPasswords :
        issued < MaxIssue /\ Register(email, password)
  \/ \E accessToken \in Presentable("access") \cup {NoToken}, run \in RaceItems :
        nextRunId <= MaxRuns /\ Upload(accessToken, run)
  \/ \E accessToken \in Presentable("access") \cup {NoToken}, items \in RaceBulkInputs :
        nextRunId + Cardinality(ClientIdsOf(items)) <= MaxRuns + 1
          /\ BulkUpload(accessToken, items)
  \/ \E accessToken \in Presentable("access") \cup {NoToken}, id \in RunIds :
        SoftDelete(accessToken, id)
  \/ \E accessToken \in Presentable("access") \cup {NoToken} : DeleteAccount(accessToken)

SpecDelete == Init /\ [][NextDelete]_vars

\* the inputs of the read specifications: the tokens of the sessions issued
ReadTokens == Presentable("access") \ {Garbage}
ReadRunInputs ==
  {r \in RunInputs : (r.clientId = "c1" /\ r.startTime = 1)
                         \/ (r.clientId = "c2" /\ r.startTime = 2)}
ReadBulkInputs == {<<r>> : r \in {i \in RaceItems : i.clientId = "c1"}}
\* the query strings of GET /api/runs that are tried
ListQueries ==
  {[limit |-> Undefined, offset |-> Undefined, resort |-> NULL, since |-> Undefined],
   [limit |-> 1, offset |-> Undefined, resort |-> NULL, since |-> Undefined],
   [limit |-> 1, offset |-> 1, resort |-> NULL, since |-> Undefined],
   [limit |-> 2, offset |-> 1, resort |-> NULL, since |-> Undefined],
   [limit |-> ListLimitMax + 1, offset |-> Undefined, resort |-> NULL, since |-> Undefined],
   [limit |-> Undefined, offset |-> Undefined, resort |-> "Alta", since |-> Undefined],
   [limit |-> Undefined, offset |-> Undefined, resort |-> "", since |-> Undefined],
   [limit |-> Undefined, offset |-> Undefined, resort |-> NULL, since |-> 2],
   [limit |-> 1, offset |-> Undefined, resort |-> "Alta", since |-> 1]}
\* a read changes nothing but the response: reads are taken once after each write
ReadOps == {"getRun", "listRuns", "friendRuns", "friends", "leaderboard", "profile"}
AfterWrite == last.op \notin ReadOps

\* SpecReads: two accounts that upload and delete runs and read their own
NextReads ==
  \/ \E email \in {"a@x.io", "b@x.io"}, password \in RegisterPasswords :
        issued < MaxUsers /\ Register(email, password)
  \/ \E accessToken \in ReadTokens, run \in ReadRunInputs :
        nextRunId <= MaxRuns /\ Upload(accessToken, run)
  \/ \E accessToken \in ReadTokens, id \in RunIds : SoftDelete(accessToken, id)
  \/ \E accessToken \in ReadTokens \cup {NoToken}, id \in RunIds :
        AfterWrite /\ GetRun(accessToken, id)
  \/ \E accessToken \in ReadTokens \cup {NoToken}, q \in ListQueries :
        AfterWrite /\ ListRuns(accessToken, q.limit, q.offset, q.resort, q.since)

SpecReads == Init /\ [][NextReads]_vars

\* SpecSocial: two accounts that upload and delete runs, befriend each other and read
\* each other's runs and the leaderboards
SocialRunIds == 1..MaxSocialRuns
NextSocial ==
  \/ \E email \in {"a@x.io", "b@x.io"}, password \in RegisterPasswords :
        issued < MaxUsers /\ Register(email, password)
  \/ \E accessToken \in ReadTokens, run \in ReadRunInputs :
        nextRunId <= MaxSocialRuns /\ Upload(accessToken, run)
  \/ \E accessToken \in ReadTokens, items \in ReadBulkInputs :
        nextRunId <= MaxSocialRuns /\ BulkUpload(accessToken, items)
  \/ \E accessToken \in ReadTokens, id \in SocialRunIds : SoftDelete(accessToken, id)
  \/ \E accessToken \in ReadTokens, code \in CodeInputs : AddFriend(accessToken, code)
  \/ \E accessToken \in ReadTokens, id \in UserIds : RemoveFriend(accessToken, id)
  \/ \E i \in 1..Len(friendships) : Block(i)
  \/ \E accessToken \in ReadTokens, id \in SocialRunIds :
        AfterWrite /\ GetRun(accessToken, id)
  \/ \E accessToken \in ReadTokens :
        AfterWrite /\ ListRuns(accessToken, Undefined, Undefined, NULL, Undefined)
  \/ \E accessToken \in ReadTokens, id \in UserIds, offset \in {Undefined, 1} :
        AfterWrite /\ ListFriendRuns(accessToken, id, Undefined, offset)
  \/ \E accessToken \in ReadTokens : AfterWrite /\ ListFriends(accessToken)
  \/ \E accessToken \in ReadTokens, board \in Boards :
        AfterWrite /\ Leaderboard(accessToken, board)

SpecSocial == Init /\ [][NextSocial]_vars

\* ------------------------------------------------- accounts that exist
\* the state in which n accounts have been registered and those of holders hold a
\* session; the others have logged out
CrowdUser(u) == NewUser("u" \o ToString(u) \o "@x.io", bcrypt_hash("password1"), NULL, 0,
                        [word |-> "SKI", num |-> u])
RECURSIVE SessionsOf(_)
SessionsOf(holders) ==
  IF holders = <<>> THEN <<>>
  ELSE GenerateTokens(SessionsOf(SubSeq(holders, 1, Len(holders) - 1)),
                      holders[Len(holders)], 0)
InitCrowd(n, holders, edges) ==
  /\ users = [u \in 1..n |-> CrowdUser(u)]
  /\ nextUserId = n + 1
  /\ refresh_tokens = SessionsOf(holders)
  /\ now = 0
  /\ issued = Len(holders)
  /\ removed = NothingRemoved
  /\ last = Failure("none", 0, "")
  /\ runs = <<>>
  /\ nextRunId = 1
  /\ procs = [p \in ProcIds |-> Idle]
  /\ friendships = edges

Crowd == 1..MaxCrowd
CrowdCodes ==
  {[word |-> w, num |-> n] : w \in {"SKI", "ski"}, n \in 1..(MaxCrowd + 1)}

\* SpecFriends: accounts that add and remove each other and list their pending requests
InitFriends == InitCrowd(MaxCrowd, [u \in Crowd |-> u], <<>>)
NextFriends ==
  \/ \E accessToken \in ReadTokens \cup {NoToken}, code \in CrowdCodes :
        AddFriend(accessToken, code)
  \/ \E accessToken \in ReadTokens \cup {NoToken}, id \in Crowd :
        RemoveFriend(accessToken, id)
  \/ \E accessToken \in ReadTokens \cup {NoToken} : ListPending(accessToken)

SpecFriends == InitFriends /\ [][NextFriends]_vars

\* SpecBlocked: the same, with edges that an operator blocks
NextBlocked ==
  \/ \E accessToken \in ReadTokens, code \in {c \in CrowdCodes : c.word = "SKI"} :
        AddFriend(accessToken, code)
  \/ \E accessToken \in ReadTokens, id \in Crowd : RemoveFriend(accessToken, id)
  \/ \E i \in 1..Len(friendships) : Block(i)

SpecBlocked == InitFriends /\ [][NextBlocked]_vars

\* SpecFriendsRace: two accounts whose invite requests are in flight together
NextFriendsRace ==
  \/ \E email \in {"a@x.io", "b@x.io"}, password \in RegisterPasswords :
        issued < MaxUsers /\ (\A p \in ProcIds : procs[p].pc = "idle")
          /\ Register(email, password)
  \/ \E p \in ProcIds, accessToken \in ReadTokens,
        code \in {c \in CodeInputs : c.word = "SKI"} :
        FriendStart(p, accessToken, code)
  \/ \E p \in ProcIds : FriendLookup(p)
  \/ \E p \in ProcIds : FriendCount(p)
  \/ \E p \in ProcIds : FriendExisting(p)
  \/ \E p \in ProcIds : FriendInsert(p)
  \/ \E p \in ProcIds : Reply(p)
  \/ \E accessToken \in ReadTokens, id \in UserIds : RemoveFriend(accessToken, id)

SpecFriendsRace == Init /\ [][NextFriendsRace]_vars

\* SpecFriendLimit: an account one edge short of MAX_FRIENDS, in both directions, and
\* two accounts it is not yet a friend of
LimitUsers == MAX_FRIENDS + 2
LimitHolders == <<1, MAX_FRIENDS + 1, MAX_FRIENDS + 2>>
LimitEdges ==
  [i \in 1..(MAX_FRIENDS - 1) |->
     IF i % 2 = 0 THEN NewFriendship(1, i + 1) ELSE NewFriendship(i + 1, 1)]
InitFriendLimit == InitCrowd(LimitUsers, LimitHolders, LimitEdges)
LimitCodes ==
  {[word |-> w, num |-> n] : w \in {"SKI", "ski"}, n \in {1, MAX_FRIENDS + 1, MAX_FRIENDS + 2, MAX_FRIENDS + 3}}
NextFriendLimit ==
  \/ \E accessToken \in ReadTokens, code \in LimitCodes : AddFriend(accessToken, code)
  \/ \E accessToken \in ReadTokens, id \in {1, 2, 3, MAX_FRIENDS + 1, MAX_FRIENDS + 2} :
        RemoveFriend(accessToken, id)

SpecFriendLimit == InitFriendLimit /\ [][NextFriendLimit]_vars

\* SpecSeason: accounts that register after the season has turned, upload runs of the
\* last season and of this one, and read the leaderboards
SeasonInstants == {YearSecs}
SeasonRunInputs ==
  {[r EXCEPT !.startTime = t] : r \in {i \in RaceItems : i.clientId = "c1"}, t \in {1}}
    \cup {[r EXCEPT !.startTime = t] :
            r \in {i \in RaceItems : i.clientId = "c2"}, t \in {YearSecs + 1}}
NextSeason ==
  \/ \E t \in SeasonInstants : Tick(t)
  \/ \E email \in {"a@x.io", "b@x.io"}, password \in RegisterPasswords :
        issued < MaxUsers /\ Register(email, password)
  \/ \E accessToken \in ReadTokens, run \in SeasonRunInputs :
        nextRunId <= MaxRuns /\ Upload(accessToken, run)
  \/ \E accessToken \in ReadTokens, code \in {c \in CodeInputs : c.word = "SKI"} :
        AddFriend(accessToken, code)
  \/ \E accessToken \in ReadTokens, board \in Boards :
        AfterWrite /\ Leaderboard(accessToken, board)

SpecSeason == Init /\ [][NextSeason]_vars

\* SpecAccount: accounts that upload a run, befriend each other, refresh their
\* session, read their profile and delete themselves
NextAccount ==
  \/ \E email \in {"a@x.io", "b@x.io"}, password \in RegisterPasswords :
        issued < MaxIssue /\ Register(email, password)
  \/ \E refreshToken \in Presentable("refresh") : issued < MaxIssue /\ Refresh(refreshToken)
  \/ \E accessToken \in Presentable("access"), run \in {i \in RaceItems : i.clientId = "c1"} :
        nextRunId <= MaxSocialRuns /\ Upload(accessToken, run)
  \/ \E accessToken \in Presentable("access"), code \in {c \in CodeInputs : c.word = "SKI"} :
        AddFriend(accessToken, code)
  \/ \E accessToken \in Presentable("access") : DeleteAccount(accessToken)
  \/ \E accessToken \in Presentable("access") : AfterWrite /\ GetProfile(accessToken)

SpecAccount == Init /\ [][NextAccount]_vars

\* SpecInvite: accounts are created while generateInviteCode draws freely among
\* MaxCodes codes: a draw sequence is one code n times, then another
InviteEmails == {"a@x.io", "b@x.io", "c@x.io"}
DrawSeqs ==
  {[k \in 1..MaxAttempts |-> IF k <= n THEN c ELSE d] :
     c \in Generated, d \in Generated, n \in {0, MaxAttempts - 1, MaxAttempts}}
NextInvite ==
  \/ \E email \in InviteEmails, draws \in DrawSeqs, ms \in 0..MaxMs :
        RegisterDrawing(email, "password1", draws, ms)
  \/ \E draws \in DrawSeqs, ms \in 0..MaxMs :
        issued < MaxIssue /\ AppleSignInDrawing("apple-s1", draws, ms)
  \/ \E t \in 0..MaxSecs : Tick(t)

SpecInvite == Init /\ [][NextInvite]_vars

\* SpecOwners: two accounts write and delete runs, each naming client ids and run
\* ids the other account holds too
OwnerRuns == {r \in RunInputs : r.clientId = "c1" /\ r.startTime = 1}
NextOwners ==
  \/ \E email \in {"a@x.io", "b@x.io"}, password \in RegisterPasswords :
        issued < MaxIssue /\ Register(email, password)
  \/ \E accessToken \in ReadTokens, run \in OwnerRuns :
        nextRunId <= MaxRuns /\ Upload(accessToken, run)
  \/ \E accessToken \in ReadTokens, run \in OwnerRuns :
        nextRunId <= MaxRuns /\ BulkUpload(accessToken, <<run>>)
  \/ \E accessToken \in ReadTokens, id \in 1..MaxRuns : SoftDelete(accessToken, id)

SpecOwners == Init /\ [][NextOwners]_vars

\* SpecIdKeyed: two accounts upload through the router keyed by run id, each naming
\* run ids the other account may have stored
IdKeyedItems ==
  {IdKeyed(id, [run EXCEPT !.clientId = NULL]) : id \in 1..MaxSocialRuns, run \in OwnerRuns}
NextIdKeyed ==
  \/ \E email \in {"a@x.io", "b@x.io"}, password \in RegisterPasswords :
        issued < MaxUsers /\ Register(email, password)
  \/ \E accessToken \in ReadTokens, item \in IdKeyedItems : UploadById(accessToken, item)
  \/ \E accessToken \in ReadTokens, item \in IdKeyedItems : BatchById(accessToken, <<item>>)

SpecIdKeyed == Init /\ [][NextIdKeyed]_vars

\* SpecSignupRace: register and Sign in with Apple requests in flight together, the
\* draws of generateInviteCode free among MaxCodes codes
NextSignupRace ==
  \/ \E p \in ProcIds, email \in {"a@x.io", "b@x.io"} :
        issued + Cardinality(InFlight) < MaxUsers /\ RegisterStart(p, email, "password1")
  \/ \E p \in ProcIds :
        issued + Cardinality(InFlight) < MaxUsers /\ AppleStart(p, "apple-s1")
  \/ \E p \in ProcIds : SignupTouch(p)
  \/ \E p \in ProcIds, draw \in Generated, ms \in 0..MaxMs : SignupCode(p, draw, ms)
  \/ \E p \in ProcIds : SignupInsert(p)
  \/ \E p \in ProcIds : SignupTokens(p)
  \/ \E p \in ProcIds : RefreshPrune(p)
  \/ \E p \in ProcIds : Reply(p)

SpecSignupRace == Init /\ [][NextSignupRace]_vars

\* SpecCalendar: the season board is read on the first and the last second of every
\* month of MaxYears years, by an account registered shortly before
CalendarInstants ==
  {y * YearSecs + DaysBefore(k) * DaySecs : y \in 0..(MaxYears - 1), k \in 1..12}
    \cup {y * YearSecs + DaysBefore(k + 1) * DaySecs - 1 : y \in 0..(MaxYears - 1), k \in 1..12}
NextCalendar ==
  \/ \E t \in CalendarInstants : Tick(t)
  \/ issued < 1 /\ Register("a@x.io", "password1")
  \/ \E accessToken \in ReadTokens : AfterWrite /\ Leaderboard(accessToken, "season")

SpecCalendar == Init /\ [][NextCalendar]_vars

\* ================================================================ claims
\* A step that answers a request sets last to the response and the request, so
\* last'.op names the handler a step is of.

\* what the claims say of a request, spelled out on the tables
ValidAccess(accessToken) ==
  accessToken.kind = "access" /\ now < accessToken.iat + AccessTTL
LiveRow(refreshToken) ==
  \E i \in 1..Len(refresh_tokens) :
    /\ refresh_tokens[i].token = refreshToken
    /\ refresh_tokens[i].user_id = refreshToken.userId
    /\ refresh_tokens[i].expires_at > now

\* C3: a refresh token exchanged by a successful refresh is never exchanged again,
\* and the token a successful refresh returns differs from the one it consumed.
C3_RefreshIsSingleUse ==
  [][(last'.op = "refresh" /\ last'.status = 200) =>
       /\ last'.req.refreshToken \notin removed.consumed
       /\ last'.refreshToken # last'.req.refreshToken]_vars

\* C6: refresh succeeds only if a row with the presented token, owned by the user of
\* its claims and not yet expired, is stored when the call is made; otherwise it
\* answers 401.
C6_RefreshNeedsLiveRow ==
  [][last'.op = "refresh" =>
       /\ last'.status \in {200, 401}
       /\ last'.status = 200 => LiveRow(last'.req.refreshToken)]_vars

\* C6 witness: a validly signed token whose row is gone was refused while another
\* row was stored
C6_Witness ==
  /\ last.op = "refresh"
  /\ last.status = 401
  /\ last.message = "Refresh token expired or revoked"
  /\ refresh_tokens # <<>>

\* C7: a token whose row was removed is never stored or accepted again, and every
\* token that can no longer be exchanged (expired ones included) has no row.
C7_TokenNeverReturns ==
  /\ removed.deleted \cap TokensIn(refresh_tokens) = {}
  /\ \A i \in 1..Len(refresh_tokens) :
       RefreshCheck(refresh_tokens, refresh_tokens[i].token, now) = "ok"

\* C8: logout with a token deletes exactly the caller's rows holding that token,
\* logout without one deletes exactly the caller's rows, a rejected logout deletes
\* nothing, and rows of other users are never touched.
C8_LogoutFrame ==
  [][last'.op = "logout" =>
       IF last'.status = 200
         THEN /\ last'.req.refreshToken # NoToken =>
                   refresh_tokens' = SelectSeq(refresh_tokens, LAMBDA r :
                      ~(r.token = last'.req.refreshToken /\ r.user_id = last'.userId))
              /\ last'.req.refreshToken = NoToken =>
                   refresh_tokens' = SelectSeq(refresh_tokens, LAMBDA r :
                      r.user_id # last'.userId)
              /\ \A u \in UserIds \ {last'.userId} :
                   RowsOf(refresh_tokens', u) = RowsOf(refresh_tokens, u)
         ELSE refresh_tokens' = refresh_tokens]_vars

\* C8 witness: a logout naming a token deleted a row and left another row of the
\* caller and a row of another user in place
C8_Witness ==
  /\ last.op = "logout"
  /\ last.status = 200
  /\ last.req.refreshToken \in removed.deleted
  /\ RowsOf(refresh_tokens, last.userId) # <<>>
  /\ \E u \in UserIds \ {last.userId} : RowsOf(refresh_tokens, u) # <<>>

\* C9: a protected handler runs only for a validly signed, unexpired access token
\* whose user exists and is not banned when the request is made; with such a token a
\* banned user gets 403 and a deleted user 401.
C9_AuthenticateGate ==
  [][last'.op \in {"profile", "logout", "account"} =>
       LET accessToken == last'.req.accessToken
       IN /\ last'.status = 200 =>
               /\ ValidAccess(accessToken)
               /\ accessToken.userId \in DOMAIN users
               /\ ~users[accessToken.userId].is_banned
               /\ last'.userId = accessToken.userId
          /\ (ValidAccess(accessToken) /\ accessToken.userId \notin DOMAIN users) =>
               last'.status = 401
          /\ (/\ ValidAccess(accessToken)
              /\ accessToken.userId \in DOMAIN users
              /\ users[accessToken.userId].is_banned) => last'.status = 403]_vars

\* C9 witness: a banned user holding a session was turned away with 403
C9_Witness ==
  /\ last.op = "profile"
  /\ last.status = 403
  /\ \E u \in DOMAIN users : users[u].is_banned /\ RowsOf(refresh_tokens, u) # <<>>

\* C10: login answers 401 when the e-mail is unknown, the account is banned, it has
\* no password hash or the password does not match, and a failed login changes
\* neither the users table nor the refresh_tokens table.
C10_LoginFailure ==
  [][last'.op = "login" =>
       LET known == {u \in DOMAIN users : users[u].email = last'.req.email}
           bad == \/ known = {}
                  \/ \E u \in known :
                       \/ users[u].is_banned
                       \/ users[u].password_hash = NoHash
                       \/ users[u].password_hash # bcrypt_hash(last'.req.password)
       IN /\ bad => last'.status = 401
          /\ last'.status # 200 =>
               /\ last'.status = 401
               /\ users' = users
               /\ refresh_tokens' = refresh_tokens]_vars

\* C10 witness: a login of a banned account failed while sessions were stored
C10_Witness ==
  /\ last.op = "login"
  /\ last.status = 401
  /\ last.message = "Account suspended"
  /\ refresh_tokens # <<>>

\* C5: after every issued session the user has at most 5 refresh-token rows, they
\* are the most recently created ones, and the row just inserted is the newest of
\* them; with 5 rows stored the sixth issuance drops exactly the oldest.
LastRows(rows, n) == IF Len(rows) <= n THEN rows ELSE SubSeq(rows, Len(rows) - n + 1, Len(rows))
C5_KeepsFiveNewest ==
  [][(last'.op \in {"register", "login", "apple", "refresh"} /\ last'.status \in {200, 201}) =>
       LET u == last'.userId
           kept == SelectSeq(RowsOf(refresh_tokens, u),
                             LAMBDA r : r.token # last'.req.refreshToken)
           new == [user_id |-> u, token |-> last'.refreshToken,
                   expires_at |-> now + RefreshTTL]
       IN /\ RowsOf(refresh_tokens', u) = LastRows(Append(kept, new), 5)
          /\ Len(RowsOf(refresh_tokens', u)) <= 5]_vars

\* C5 witness: six sessions were issued with nothing consumed, and the clean-up
\* left the user the five newest rows
C5_Witness ==
  /\ last.op = "login"
  /\ last.status = 200
  /\ issued >= 6
  /\ removed.consumed = {}
  /\ \E tok \in removed.deleted : tok.userId = last.userId
  /\ Len(RowsOf(refresh_tokens, last.userId)) = 5

\* C1: a single-run upload of a clientId the user has already uploaded leaves
\* exactly one row for (user, clientId), and its name, metrics and route payload
\* are those of this upload (an absent optional metric reads 0, an absent name or
\* payload NULL): the last write wins.
C1_LastWriteWins ==
  [][(last'.op = "upload" /\ last'.status \in {200, 201}) =>
       LET run == last'.req.run
           rows == {i \in 1..Len(runs') :
                      runs'[i].user_id = last'.userId /\ runs'[i].client_id = run.clientId}
       IN /\ Cardinality(rows) = 1
          /\ \A i \in rows :
               /\ runs'[i].id = last'.runId
               /\ runs'[i].run_name = run.runName
               /\ runs'[i].start_time = run.startTime
               /\ runs'[i].distance = run.distance
               /\ runs'[i].calories = IF run.calories = Undefined THEN 0 ELSE run.calories
               /\ runs'[i].route_data =
                    IF run.routeData = JSONUndefined THEN JSONNull ELSE run.routeData]_vars

\* C1 witness: a second upload of a clientId was answered 200 and the one row holds
\* its payload, beside a row of another clientId
C1_Witness ==
  /\ last.op = "upload"
  /\ last.status = 200
  /\ last.req.run.routeData = Array(<<>>)
  /\ \E i \in 1..Len(runs) : runs[i].id = last.runId /\ runs[i].route_data = Array(<<>>)
  /\ Len(runs) > 1

\* C2: whatever the interleaving of concurrent single and bulk uploads, the table
\* holds at most one row per (user, clientId).
C2_OneRowPerClientId ==
  \A i, j \in 1..Len(runs) :
    (runs[i].user_id = runs[j].user_id /\ runs[i].client_id = runs[j].client_id) => i = j

\* C4: of two refresh calls in flight together that present the same refresh
\* token, signed before the second in which they are made, at most one succeeds.
C4_OneConcurrentRefreshWins ==
  \A p, q \in ProcIds :
    (/\ p # q
     /\ procs[p].pc = "done" /\ procs[q].pc = "done"
     /\ procs[p].op = "refresh" /\ procs[q].op = "refresh"
     /\ procs[p].req.refreshToken = procs[q].req.refreshToken
     /\ procs[p].req.refreshToken.iat < procs[p].startedAt
     /\ procs[p].req.refreshToken.iat < procs[q].startedAt)
    => ~(procs[p].response.status = 200 /\ procs[q].response.status = 200)

\* equality of two e-mail addresses up to the case of their letters
SameUpToCase(a, b) == a = b \/ {a, b} = {"a@x.io", "A@x.io"}

C12_AppleAlwaysSignsIn ==
  [][(last'.op = "apple" /\ verifyIdToken(last'.req.identityToken).ok) =>
       LET sub == verifyIdToken(last'.req.identityToken).sub
           holders == {u \in DOMAIN users' : users'[u].apple_user_id = sub}
       IN /\ last'.status = 200
          /\ Cardinality(holders) = 1
          /\ last'.userId \in holders]_vars

\* C13: the server id returned for a (user, clientId) is the same on every upload,
\* and only the upload that finds no row for it answers 201: of two single uploads
\* of one user and one clientId that have both been answered, the ids are equal
\* and at most one was answered 201.
C13_SameIdEveryUpload ==
  \A p, q \in ProcIds :
    (/\ p # q
     /\ procs[p].pc = "done" /\ procs[q].pc = "done"
     /\ procs[p].op = "upload" /\ procs[q].op = "upload"
     /\ procs[p].response.status \in {200, 201}
     /\ procs[q].response.status \in {200, 201}
     /\ procs[p].userId = procs[q].userId
     /\ procs[p].req.run.clientId = procs[q].req.run.clientId)
    => /\ procs[p].response.runId = procs[q].response.runId
       /\ ~(procs[p].response.status = 201 /\ procs[q].response.status = 201)

\* C14: a bulk upload of no run or of more than 50 runs is answered with the
\* validation error and writes no row; one of 1 to 50 runs is answered with one
\* result entry per item, in input order, each carrying the item's clientId.
C14_BulkResults ==
  [][(last'.op = "bulk" /\ last'.status \notin {401, 403}) =>
       LET items == last'.req.runs
           results == last'.results
       IN IF Len(items) = 0 \/ Len(items) > 50
            THEN /\ last'.status = 400
                 /\ last'.message = "Validation failed"
                 /\ runs' = runs
                 /\ nextRunId' = nextRunId
            ELSE /\ last'.status = 200
                 /\ Len(results) = Len(items)
                 /\ \A i \in 1..Len(items) :
                      /\ results[i].clientId = items[i].clientId
                      /\ results[i].status \in {"created", "exists", "error"}]_vars

\* C14 witness: a bulk upload of two runs answered with two entries, in order
C14_Witness ==
  /\ last.op = "bulk"
  /\ last.status = 200
  /\ Len(last.results) = 2
  /\ last.req.runs[1].clientId = "c2" /\ last.results[1].clientId = "c2"
  /\ last.req.runs[2].clientId = "c1" /\ last.results[2].clientId = "c1"

\* C15: a bulk upload in which an item cannot be persisted still succeeds as a whole:
\* that item is reported "error", and every item that can be persisted is reported
\* "created" or "exists" with the id of a stored row of the caller and the clientId.
C15_BulkItemFailure ==
  [][(last'.op = "bulk" /\ last'.status \notin {400, 401, 403}) =>
       LET items == last'.req.runs
           results == last'.results
           stored(i) == {k \in 1..Len(runs') :
                           /\ runs'[k].user_id = last'.userId
                           /\ runs'[k].client_id = items[i].clientId}
           valid(i) == items[i].clientId # NULL /\ items[i].startTime # Undefined
       IN /\ last'.status = 200
          /\ \A i \in 1..Len(items) :
               /\ i \in DOMAIN results
               /\ valid(i) =>
                    /\ results[i].status \in {"created", "exists"}
                    /\ \E k \in stored(i) : runs'[k].id = results[i].serverId
               /\ (~valid(i) /\ stored(i) = {}) => results[i].status = "error"
               /\ results[i].status = "error" => ~valid(i)]_vars

\* C15 witness: the first item failed and the second, valid, was created after it
C15_Witness ==
  /\ last.op = "bulk"
  /\ last.status = 200
  /\ Len(last.results) = 2
  /\ last.results[1].status = "error"
  /\ last.results[2].status = "created"
  /\ \E k \in 1..Len(runs) : runs[k].id = last.results[2].serverId

\* C16: softDeleteRun succeeds exactly for a run of the caller that is not yet
\* soft-deleted; for an id that is absent, owned by another user or already
\* soft-deleted it answers NotFound.
C16_SoftDeleteOnlyLive ==
  [][(last'.op = "delete" /\ last'.status \notin {401, 403}) =>
       LET live == \E i \in 1..Len(runs) :
                     /\ runs[i].id = last'.req.id
                     /\ runs[i].user_id = last'.userId
                     /\ ~runs[i].is_deleted
       IN /\ last'.status \in {200, 404}
          /\ last'.status = 200 <=> live]_vars

\* C18: no operation other than the deletion of the account removes a row of runs:
\* every row is still there after any other operation, and the deletion of an
\* account removes only the rows of that account.
C18_RowsStay ==
  [][\A i \in 1..Len(runs) :
       (last'.op # "account" \/ runs[i].user_id \in DOMAIN users')
         => \E k \in 1..Len(runs') :
              /\ runs'[k].id = runs[i].id
              /\ runs'[k].user_id = runs[i].user_id
              /\ runs'[k].client_id = runs[i].client_id]_vars

\* C18 witness: a run was soft-deleted and its row is still stored
C18_Witness ==
  /\ last.op = "delete"
  /\ last.status = 200
  /\ \E i \in 1..Len(runs) : runs[i].id = last.req.id /\ runs[i].is_deleted

\* C17: once a run is soft-deleted its flag stays set whatever is done next,
\* re-uploads of its clientId included, and no read returns it: not the list or the
\* detail of the owner, not the list a friend reads, not the counts and sums of the
\* friends list and of the leaderboards, not the entries of the speed board.
C17_DeletedStaysHidden ==
  [][LET deleted == {runs'[i].id : i \in {k \in 1..Len(runs') : runs'[k].is_deleted}}
         live == SelectSeq(runs', LAMBDA r : ~r.is_deleted)
         liveOf(u, from) == {i \in 1..Len(live) :
                               live[i].user_id = u /\ live[i].start_time >= from}
         res == last'.results
     IN /\ \A i \in 1..Len(runs), k \in 1..Len(runs') :
             (runs[i].is_deleted /\ runs'[k].id = runs[i].id) => runs'[k].is_deleted
        /\ (last'.op \in {"listRuns", "getRun", "friendRuns"} /\ last'.status = 200) =>
             \A k \in 1..Len(res) : res[k].id \notin deleted
        /\ (last'.op = "leaderboard" /\ last'.status = 200 /\ last'.req.board = "speed") =>
             \A k \in 1..Len(res) : res[k].runId \notin deleted
        /\ (last'.op = "leaderboard" /\ last'.status = 200 /\ last'.req.board # "speed") =>
             \A k \in 1..Len(res) :
               /\ res[k].runs = Cardinality(liveOf(res[k].userId, getSeasonStart(now)))
               /\ res[k].runs = 0 => res[k].value = 0
        /\ (last'.op = "friends" /\ last'.status = 200) =>
             \A k \in 1..Len(res) :
               /\ res[k].runs = Cardinality(liveOf(res[k].userId, 0))
               /\ res[k].runs = 0 =>
                    res[k].value = 0 /\ res[k].topSpeed = 0 /\ res[k].totalVert = 0]_vars

\* C17 witness: the clientId of a soft-deleted run was uploaded again, and the row
\* is still flagged
C17_Witness ==
  /\ last.op \in {"upload", "bulk"}
  /\ last.status = 200
  /\ \E i \in 1..Len(runs) :
       /\ runs[i].is_deleted
       /\ runs[i].user_id = last.userId
       /\ runs[i].client_id = "c1"
       /\ (last.op = "upload" => last.runId = runs[i].id)
       /\ (last.op = "bulk" => last.results[1].serverId = runs[i].id)

\* C19: listRuns returns only runs of the caller that are not soft-deleted and
\* satisfy the resort and since filters, newest start time first, at most limit
\* (1..100, 50 when absent) of them from offset on; total is the number of all
\* matching runs whatever limit and offset are.
C19_ListRuns ==
  [][(last'.op = "listRuns" /\ last'.status \notin {401, 403}) =>
       LET q == last'.req
           limit == IF q.limit = Undefined THEN 50 ELSE q.limit
           offset == IF q.offset = Undefined THEN 0 ELSE q.offset
           M == {i \in 1..Len(runs) :
                   /\ runs[i].user_id = last'.userId
                   /\ ~runs[i].is_deleted
                   /\ (q.resort \notin {NULL, ""} => runs[i].resort_name = q.resort)
                   /\ (q.since # Undefined => runs[i].start_time >= q.since)}
           n == Cardinality(M)
           left == IF n > offset THEN n - offset ELSE 0
           res == last'.results
       IN IF limit < 1 \/ limit > 100 \/ offset < 0
            THEN last'.status = 400
            ELSE /\ last'.status = 200
                 /\ last'.total = n
                 /\ Len(res) = IF limit < left THEN limit ELSE left
                 /\ \A k \in 1..Len(res) :
                      /\ \E i \in M : /\ res[k].id = runs[i].id
                                      /\ res[k].clientId = runs[i].client_id
                                      /\ res[k].startTime = runs[i].start_time
                                      /\ res[k].resortName = runs[i].resort_name
                                      /\ res[k].distance = runs[i].distance
                      /\ Cardinality({i \in M : runs[i].start_time > res[k].startTime})
                           <= offset + k - 1
                      /\ Cardinality({i \in M : runs[i].start_time >= res[k].startTime})
                           >= offset + k
                 /\ \A k, l \in 1..Len(res) :
                      k < l => /\ res[k].id # res[l].id
                               /\ res[k].startTime >= res[l].startTime]_vars

\* C19 witness: the second page of one, of two runs of the caller, beside a run of
\* another user
C19_Witness ==
  /\ last.op = "listRuns"
  /\ last.status = 200
  /\ last.req.limit = 1 /\ last.req.offset = 1
  /\ last.total = 2
  /\ Len(last.results) = 1
  /\ last.results[1].startTime = 1
  /\ \E i \in 1..Len(runs) : runs[i].user_id # last.userId

\* C20: getRun returns the run, route payload included, exactly when a run of that
\* id exists, is owned by the caller and is not soft-deleted; in every other case
\* the answer is the same NotFound, which carries nothing of the run.
C20_GetRun ==
  [][(last'.op = "getRun" /\ last'.status \notin {401, 403}) =>
       LET found == {i \in 1..Len(runs) :
                       /\ runs[i].id = last'.req.id
                       /\ runs[i].user_id = last'.userId
                       /\ ~runs[i].is_deleted}
       IN IF found # {}
            THEN /\ last'.status = 200
                 /\ Len(last'.results) = 1
                 /\ \E i \in found :
                      /\ last'.results[1].id = runs[i].id
                      /\ last'.results[1].clientId = runs[i].client_id
                      /\ last'.results[1].startTime = runs[i].start_time
                      /\ last'.results[1].routeData = runs[i].route_data
            ELSE /\ last'.status = 404
                 /\ last'.message = "Run not found"
                 /\ last'.results = <<>>
                 /\ last'.runId = 0
                 /\ last'.total = 0]_vars

\* C20 witness: the detail of a run with a route payload was read by its owner,
\* while the table holds a run of another user
C20_Witness ==
  /\ last.op = "getRun"
  /\ last.status = 200
  /\ last.results[1].routeData = Array(<<1, 2>>)
  /\ \E i \in 1..Len(runs) : runs[i].user_id # last.userId

\* C21: whatever the interleaving of invite and remove requests, at most one
\* friendship row exists between two users, whichever of them it names first.
C21_OneEdgePerPair ==
  \A i, j \in 1..Len(friendships) :
    {friendships[i].user_id, friendships[i].friend_id}
      = {friendships[j].user_id, friendships[j].friend_id} => i = j

C23_InviteRejections ==
  [][/\ \A i \in 1..Len(friendships') : friendships'[i].user_id # friendships'[i].friend_id
     /\ (last'.op = "addFriend" /\ last'.status \notin {401, 403}) =>
          LET me == last'.userId
              target == last'.req.code.num
              joined == \E i \in 1..Len(friendships) :
                          {friendships[i].user_id, friendships[i].friend_id} = {me, target}
          IN /\ target \notin DOMAIN users => last'.status = 404
             /\ target = me => last'.status = 400
             /\ joined => last'.status = 400
             /\ last'.status # 201 => friendships' = friendships
             /\ last'.status = 201 =>
                  /\ Len(friendships') = Len(friendships) + 1
                  /\ SubSeq(friendships', 1, Len(friendships)) = friendships
                  /\ friendships'[Len(friendships')].user_id = me
                  /\ friendships'[Len(friendships')].friend_id = target]_vars

\* C23 witness: an invite was refused because the target had added the requester
C23_Witness ==
  /\ last.op = "addFriend"
  /\ last.status = 400
  /\ \E i \in 1..Len(friendships) :
       /\ friendships[i].user_id = last.req.code.num
       /\ friendships[i].friend_id = last.userId

\* C24 as stated: whenever the requester has 50 or more accepted rows, counted in
\* both directions, the invite request is answered with the limit error.
C24_LimitAlways ==
  [][(last'.op = "addFriend" /\ last'.status \notin {401, 403}) =>
       LET me == last'.userId
           mine == {i \in 1..Len(friendships) :
                      /\ me \in {friendships[i].user_id, friendships[i].friend_id}
                      /\ friendships[i].status = "accepted"}
       IN Cardinality(mine) >= 50 =>
            /\ last'.status = 400
            /\ last'.message = "Friend limit reached"
            /\ friendships' = friendships]_vars

\* C24 amended: whenever the requester has 50 or more accepted rows, counted in
\* both directions, an invite request whose code is that of another user is
\* answered with the limit error, and any invite request inserts nothing.
C24_LimitForOthers ==
  [][(last'.op = "addFriend" /\ last'.status \notin {401, 403}) =>
       LET me == last'.userId
           target == last'.req.code.num
           mine == {i \in 1..Len(friendships) :
                      /\ me \in {friendships[i].user_id, friendships[i].friend_id}
                      /\ friendships[i].status = "accepted"}
       IN Cardinality(mine) >= 50 =>
            /\ friendships' = friendships
            /\ last'.status \in {400, 404}
            /\ (target \in DOMAIN users /\ target # me) =>
                 last'.status = 400 /\ last'.message = "Friend limit reached"]_vars

\* C24 witness: the invite of a stranger was refused for the limit, the requester
\* having 50 accepted rows of which some were initiated by the other side
C24_Witness ==
  /\ last.op = "addFriend"
  /\ last.status = 400
  /\ last.message = "Friend limit reached"
  /\ Cardinality({i \in 1..Len(friendships) :
                    last.userId \in {friendships[i].user_id, friendships[i].friend_id}}) = 50
  /\ Cardinality({i \in 1..Len(friendships) : friendships[i].user_id = last.userId}) < 50
  /\ ~\E i \in 1..Len(friendships) :
        {friendships[i].user_id, friendships[i].friend_id} = {last.userId, last.req.code.num}

\* C25: every friendship row is accepted from its insertion on: no state holds a
\* pending or blocked row, and the pending listing is empty whenever it is read.
C25_AlwaysAccepted ==
  [][/\ \A i \in 1..Len(friendships') : friendships'[i].status = "accepted"
     /\ (last'.op = "addFriend" /\ last'.status = 201) =>
          friendships'[Len(friendships')].status = "accepted"
     /\ (last'.op = "pending" /\ last'.status = 200) => last'.results = <<>>]_vars

\* C25 witness: the pending listing was read by a user who has a friend
C25_Witness ==
  /\ last.op = "pending"
  /\ last.status = 200
  /\ \E i \in 1..Len(friendships) :
       last.userId \in {friendships[i].user_id, friendships[i].friend_id}

\* C26: a remove request deletes the row between caller and the user named,
\* whoever initiated it, unless it is blocked; it is answered 404 and changes nothing
\* when there is no such row or the row is blocked; the rows of other pairs stay.
C26_RemoveFrame ==
  [][(last'.op = "removeFriend" /\ last'.status \notin {401, 403}) =>
       LET me == last'.userId
           other == last'.req.id
           hit == {i \in 1..Len(friendships) :
                     /\ {friendships[i].user_id, friendships[i].friend_id} = {me, other}
                     /\ friendships[i].status # "blocked"}
       IN IF hit = {}
            THEN /\ last'.status = 404
                 /\ friendships' = friendships
            ELSE /\ last'.status = 200
                 /\ Len(friendships') = Len(friendships) - Cardinality(hit)
                 /\ {friendships'[k] : k \in 1..Len(friendships')}
                      = {friendships[i] : i \in (1..Len(friendships)) \ hit}]_vars

\* C26 witness: the removal of a blocked row was answered 404 and the row is stored,
\* beside the row of another pair
C26_Witness ==
  /\ last.op = "removeFriend"
  /\ last.status = 404
  /\ \E i \in 1..Len(friendships) :
       /\ {friendships[i].user_id, friendships[i].friend_id} = {last.userId, last.req.id}
       /\ friendships[i].status = "blocked"
  /\ Len(friendships) > 1

\* C27: the runs of another user are listed exactly when an accepted row joins
\* caller and that user at the time of the request, and then only that user's runs;
\* otherwise the answer is 403, in particular right after either has removed the row.
C27_FriendRunsNeedEdge ==
  [][(last'.op = "friendRuns" /\ last'.status # 401) =>
       LET me == last'.userId
           other == last'.req.id
           edge == \E i \in 1..Len(friendships) :
                     /\ {friendships[i].user_id, friendships[i].friend_id} = {me, other}
                     /\ friendships[i].status = "accepted"
       IN /\ edge =>
               /\ last'.status = 200
               /\ \A k \in 1..Len(last'.results) :
                    \E i \in 1..Len(runs) : /\ runs[i].id = last'.results[k].id
                                            /\ runs[i].user_id = other
          /\ ~edge =>
               /\ last'.status = 403
               /\ last'.message = "Not friends with this user"
               /\ last'.results = <<>>
          /\ (/\ last.op = "removeFriend" /\ last.status = 200
              /\ {me, other} = {last.userId, last.req.id}) => last'.status = 403]_vars

\* C27 witness: the runs of a user who has a run were refused to a user the row
\* with whom is gone
C27_Witness ==
  /\ last.op = "friendRuns"
  /\ last.status = 403
  /\ last.req.id # last.userId
  /\ friendships = <<>>
  /\ \E i \in 1..Len(runs) : runs[i].user_id = last.req.id /\ ~runs[i].is_deleted

\* C28: every row of every leaderboard is of the caller or of a user joined to the
\* caller by an accepted row at the time of the query.
C28_BoardOfFriends ==
  [][(last'.op = "leaderboard" /\ last'.status = 200) =>
       \A k \in 1..Len(last'.results) :
         \/ last'.results[k].userId = last'.userId
         \/ \E i \in 1..Len(friendships) :
              /\ {friendships[i].user_id, friendships[i].friend_id}
                   = {last'.userId, last'.results[k].userId}
              /\ friendships[i].status = "accepted"]_vars

\* C28 witness: the speed board of a user with a run, while a user who is no friend
\* has a faster run
C28_Witness ==
  /\ last.op = "leaderboard"
  /\ last.status = 200
  /\ last.req.board = "speed"
  /\ Len(last.results) = 1
  /\ \A i \in 1..Len(friendships) : friendships[i].status # "accepted"
  /\ \E i \in 1..Len(runs) :
       /\ runs[i].user_id # last.userId
       /\ ~runs[i].is_deleted
       /\ runs[i].max_speed > last.results[1].value

\* C29: each of the four leaderboards is computed over the runs that started on or
\* after the start of the current season only: the speed board lists no earlier run,
\* and the counts and sums of the other three leave earlier runs out.
C29_SeasonWindow ==
  [][(last'.op = "leaderboard" /\ last'.status = 200) =>
       LET seasonStart == getSeasonStart(now)
           inSeason(u) == {i \in 1..Len(runs) : /\ runs[i].user_id = u
                                                /\ ~runs[i].is_deleted
                                                /\ runs[i].start_time >= seasonStart}
       IN \A k \in 1..Len(last'.results) :
            IF last'.req.board = "speed"
              THEN \E i \in inSeason(last'.results[k].userId) :
                     runs[i].id = last'.results[k].runId
              ELSE /\ last'.results[k].runs = Cardinality(inSeason(last'.results[k].userId))
                   /\ inSeason(last'.results[k].userId) = {} => last'.results[k].value = 0]_vars

\* C30: once an account is deleted no refresh-token, run or friendship row names
\* it; a request with an access token of it is answered 401 and a refresh with a
\* refresh token of it is answered 401.
C30_AccountGone ==
  [][/\ \A i \in 1..Len(refresh_tokens') : refresh_tokens'[i].user_id \in DOMAIN users'
     /\ \A i \in 1..Len(runs') : runs'[i].user_id \in DOMAIN users'
     /\ \A i \in 1..Len(friendships') :
          {friendships'[i].user_id, friendships'[i].friend_id} \subseteq DOMAIN users'
     /\ (last'.op = "account" /\ last'.status = 200) => last'.userId \notin DOMAIN users'
     /\ (/\ last'.op \in {"profile", "upload", "addFriend", "account"}
         /\ last'.req.accessToken.userId \notin DOMAIN users) => last'.status = 401
     /\ (/\ last'.op = "refresh"
         /\ last'.req.refreshToken.userId \notin DOMAIN users) => last'.status = 401]_vars

\* C30 witness: a refresh token of a deleted account was refused
C30_Witness ==
  /\ last.op = "refresh"
  /\ last.status = 401
  /\ last.req.refreshToken.kind = "refresh"
  /\ last.req.refreshToken.userId > 0
  /\ last.req.refreshToken.userId \notin DOMAIN users


\* C31: whenever register or Sign in with Apple has generated an invite code for a new
\* row, no stored user holds that code at that moment, whether the code came from a
\* draw of the retry loop or from the fallback after ten collisions.
C31_CodeUnheld ==
  [][(/\ last' # last
      /\ last'.op \in {"register", "apple"}
      /\ last'.inviteCode # NoCode)
     => ByInviteCode(last'.inviteCode) = {}]_vars


\* C32: no step answers a login, a Sign in with Apple or a refresh with a token pair
\* for a user whose is_banned flag is set when the call is made, and no step adds a
\* refresh_tokens row for such a user.
C32_NoSessionForBanned ==
  [][\A u \in DOMAIN users :
       users[u].is_banned =>
         /\ ~(/\ last'.op \in {"login", "apple", "refresh"}
              /\ last'.status = 200
              /\ last'.userId = u)
         /\ Cardinality({i \in 1..Len(refresh_tokens') : refresh_tokens'[i].user_id = u})
              <= Cardinality({i \in 1..Len(refresh_tokens) : refresh_tokens[i].user_id = u})]_vars


C34_FailedRefreshFrame ==
  [][last'.op = "refresh" =>
       LET token == last'.req.refreshToken
           rows == {i \in 1..Len(refresh_tokens) :
                      /\ refresh_tokens[i].token = token
                      /\ refresh_tokens[i].user_id = token.userId
                      /\ refresh_tokens[i].expires_at > now}
           bad == \/ token.kind # "refresh"
                  \/ now >= token.iat + RefreshTTL
                  \/ rows = {}
                  \/ token.userId \notin DOMAIN users
                  \/ users[token.userId].is_banned
       IN /\ bad => last'.status = 401
          /\ last'.status # 200 => refresh_tokens' = refresh_tokens]_vars

\* C34 witness: a refresh was refused because its user is banned while the row of the
\* presented token is stored and unexpired
C34_Witness ==
  /\ last.op = "refresh"
  /\ last.status = 401
  /\ last.message = "User not found"
  /\ \E i \in 1..Len(refresh_tokens) :
       /\ refresh_tokens[i].token = last.req.refreshToken
       /\ refresh_tokens[i].expires_at > now


\* C35: in a bulk upload answered 200, an item whose clientId has a row of the caller,
\* stored before the call or created by an earlier item of the batch, is reported
\* "exists" with the id of that row; every row stored before the call is unchanged
\* and the caller has no more rows for that clientId than the one.
C35_BulkExistsFrame ==
  [][(last'.op = "bulk" /\ last'.status = 200) =>
       LET items == last'.req.runs
           results == last'.results
           caller == last'.userId
           Stored(c) == {i \in 1..Len(runs) :
                           runs[i].user_id = caller /\ runs[i].client_id = c}
           Earlier(k) == {j \in 1..(k - 1) :
                            items[j].clientId = items[k].clientId
                              /\ results[j].status = "created"}
       IN /\ \A i \in 1..Len(runs) : runs'[i] = runs[i]
          /\ \A k \in 1..Len(items) :
               (items[k].clientId # NULL /\ (Stored(items[k].clientId) # {} \/ Earlier(k) # {}))
                 => /\ results[k].status = "exists"
                    /\ \/ \E i \in Stored(items[k].clientId) : results[k].serverId = runs[i].id
                       \/ \E j \in Earlier(k) : results[k].serverId = results[j].serverId
                    /\ Cardinality({i \in 1..Len(runs') :
                          runs'[i].user_id = caller /\ runs'[i].client_id = items[k].clientId})
                         = 1]_vars

\* C35 witness: one batch whose first item was created and whose second item, with
\* the same clientId, was reported as existing, sent by a caller who had stored
\* another run before
C35_Witness ==
  /\ last.op = "bulk"
  /\ last.status = 200
  /\ Len(last.results) = 2
  /\ last.results[1].status = "created"
  /\ last.results[2].status = "exists"
  /\ last.results[2].serverId = last.results[1].serverId
  /\ \E i \in 1..Len(runs) : runs[i].user_id = last.userId /\ runs[i].id < last.results[1].serverId


\* C36: a bulk upload of one run whose clientId the caller has not stored yet adds the
\* very row that POST /v1/runs adds for the same run: the same descriptive fields,
\* metrics and route payload.
C36_BulkStoresSameRow ==
  [][(/\ last'.op = "bulk" /\ last'.status = 200
      /\ Len(last'.req.runs) = 1
      /\ last'.results[1].status = "created")
     => runs' = InsertRun(runs, nextRunId, last'.userId, last'.req.runs[1])]_vars


\* C37: in every state no user has more than MAX_FRIENDS accepted friendship rows,
\* counting the rows the user requested and the rows that name the user as friend.
C37_AtMostFiftyFriends ==
  \A u \in DOMAIN users :
    Cardinality({i \in 1..Len(friendships) :
                   /\ u \in {friendships[i].user_id, friendships[i].friend_id}
                   /\ friendships[i].status = "accepted"}) <= MAX_FRIENDS


\* C38: in every state, whatever the interleaving of the register and Sign in with
\* Apple requests in flight, two different user rows never hold the same e-mail, the
\* same Apple subject id or the same invite code.
C38_UsersUnique ==
  \A u, v \in DOMAIN users :
    u # v =>
      /\ users[u].email = NULL \/ users[u].email # users[v].email
      /\ users[u].apple_user_id = NULL \/ users[u].apple_user_id # users[v].apple_user_id
      /\ users[u].invite_code # users[v].invite_code

\* C38 witness: a register that passed its SELECT of the e-mail while another register
\* of that e-mail was in flight was refused by the UNIQUE constraint of users.email,
\* the other one having stored its row
C38_Witness ==
  /\ last.op = "register"
  /\ last.status = 400
  /\ last.message = "users_email_key"
  /\ \E u \in DOMAIN users : users[u].email = toLowerCase(last.req.email)


\* C39: in every leaderboard response the k-th row has rank k, the values do not
\* increase from one row to the next, isYou is set on the rows of the caller and on
\* no other, and the season, vert and distance boards hold exactly one row of the
\* caller, runs in the season or not.
C39_BoardShape ==
  [][(last'.op = "leaderboard" /\ last'.status = 200) =>
       LET res == last'.results
       IN /\ \A k \in 1..Len(res) :
               /\ res[k].rank = k
               /\ res[k].isYou <=> res[k].userId = last'.userId
               /\ k < Len(res) => res[k].value >= res[k + 1].value
          /\ last'.req.board # "speed" =>
               Cardinality({k \in 1..Len(res) : res[k].userId = last'.userId}) = 1]_vars

\* C39 witness: a season board of two rows on which the caller, who has no run, is
\* ranked second with the value 0 behind a friend who has points
C39_Witness ==
  /\ last.op = "leaderboard"
  /\ last.status = 200
  /\ last.req.board = "season"
  /\ Len(last.results) = 2
  /\ last.results[2].isYou
  /\ last.results[2].value = 0
  /\ last.results[1].value > 0
  /\ ~last.results[1].isYou
  /\ \A i \in 1..Len(runs) : runs[i].user_id # last.userId


\* C40: at every instant getSeasonStart is 1 November of the current year when the
\* month is November or December and 1 November of the year before otherwise; it
\* is never after the instant and less than one year before it.
C40_SeasonStart ==
  LET start == getSeasonStart(now)
  IN /\ start = November1(IF getMonth(now) \in {11, 12} THEN getFullYear(now)
                                                      ELSE getFullYear(now) - 1)
     /\ start <= now
     /\ now - start < YearSecs

\* C40 witness: the season board was served on the last second of an October, the
\* last instant of the season that began on 1 November of the year before
C40_Witness ==
  /\ last.op = "leaderboard"
  /\ last.status = 200
  /\ getMonth(now) = 10
  /\ getMonth(now + 1) = 11
  /\ getSeasonStart(now) = November1(getFullYear(now) - 1)
  /\ getSeasonStart(now + 1) = November1(getFullYear(now))
====
